---- MODULE Spec2Model ----
(***************************************************************************)
(* Control-flow-graph and data-flow-graph construction of partA:           *)
(*   cfg_generator.py  CFGNode, CFGGenerator                               *)
(*   dfg_generator.py  DataFlowAnalyzer, DFGGenerator                      *)
(* The functions that are analysed are values of a small model of          *)
(* Python's ast: records with a "type" field naming the ast class.         *)
(***************************************************************************)
EXTENDS Integers, Sequences, FiniteSets, TLC

VARIABLES
    func,        \* CFG: the ast.FunctionDef handed to _build_cfg_from_function
    nodes,       \* CFG: the CFGNode objects, in creation order (a reference is an index)
    id_counter,  \* CFG: the class attribute CFGNode._id_counter
    entry,       \* CFG: the entry node returned by _build_cfg_from_function, None before
    pc,          \* position of the sequential caller (generate_cfg / generate_dfg)
    visited,     \* render: the visited set of _visualize_cfg
    stack,       \* render: the activation records of _add_nodes_to_graph
    out_nodes,   \* render: the graph.node calls made, in order (node ids)
    out_edges,   \* render: the graph.edge calls made, in order
    calls,       \* concurrent callers of _build_cfg_from_function
    dfunc,       \* DFG: the ast.FunctionDef of the module handed to generate_dfg
    analyzer,    \* DFG: the DataFlowAnalyzer instance
    stmt_i,      \* DFG: index of the next statement of the loop in visit_FunctionDef
    clock,       \* render: datetime.now(), in whole seconds
    renders,     \* render: the render calls made, with the path each returned
    generator,   \* batch: the method called, "generate_cfg" or "generate_dfg_for_all_functions"
    source,      \* batch: the code handed to the method (functions, or text that does not parse)
    fn_i,        \* batch: index of the next function of the loop
    result,      \* batch: the local dict `result`
    outcomes,    \* batch: what happened for each function processed so far
    returned,    \* batch: what the method handed to its caller
    fs,          \* cleanup: the files on disk
    deleted      \* cleanup: the delete_files calls made, with what each returned

vars == <<func, nodes, id_counter, entry, pc, visited, stack, out_nodes, out_edges,
          calls, dfunc, analyzer, stmt_i, clock, renders, generator, source, fn_i,
          result, outcomes, returned, fs, deleted>>

cfg_vars == <<func, nodes, id_counter, entry, visited, stack, out_nodes, out_edges>>
dfg_vars == <<dfunc, analyzer, stmt_i>>
render_vars == <<clock, renders>>
gen_vars == <<generator, source, fn_i, result, outcomes, returned>>
cleanup_vars == <<fs, deleted>>
ext_vars == <<render_vars, gen_vars, cleanup_vars>>

Range(s) == {s[k] : k \in 1..Len(s)}

-----------------------------------------------------------------------------
(* The ast node vocabulary.                                                *)

None == 0

NoValue == [type |-> "NoneType"]

Name(id, ctx) == [type |-> "Name", id |-> id, ctx |-> ctx]
Load(id) == Name(id, "Load")
Store(id) == Name(id, "Store")
Constant(text) == [type |-> "Constant", value |-> text]
BinOp(left, op, right) == [type |-> "BinOp", left |-> left, op |-> op, right |-> right]
Compare(left, op, right) == [type |-> "Compare", left |-> left, op |-> op, right |-> right]
Call(f, args) == [type |-> "Call", func |-> f, args |-> args]
TupleT(elts, ctx) == [type |-> "Tuple", elts |-> elts, ctx |-> ctx]

Assign(targets, value) == [type |-> "Assign", targets |-> targets, value |-> value]
AugAssign(target, op, value) ==
    [type |-> "AugAssign", target |-> target, op |-> op, value |-> value]
ExprStmt(value) == [type |-> "Expr", value |-> value]
Return(value) == [type |-> "Return", value |-> value]
Break == [type |-> "Break"]
Continue == [type |-> "Continue"]
If(test, body, orelse) == [type |-> "If", test |-> test, body |-> body, orelse |-> orelse]
While(test, body) == [type |-> "While", test |-> test, body |-> body]
ForElse(target, iter, body, orelse) ==
    [type |-> "For", target |-> target, iter |-> iter, body |-> body, orelse |-> orelse]
For(target, iter, body) == ForElse(target, iter, body, <<>>)
WithItem(context_expr, optional_vars) ==
    [type |-> "withitem", context_expr |-> context_expr,
     optional_vars |-> optional_vars]
With(items, body) == [type |-> "With", items |-> items, body |-> body]
FunctionDef(name, args, body) ==
    [type |-> "FunctionDef", name |-> name, args |-> args, body |-> body]

(* ", ".join(names) for a list of strings.                                 *)
RECURSIVE Join(_, _)
Join(strs, sep) ==
    IF strs = <<>> THEN ""
    ELSE IF Len(strs) = 1 THEN strs[1]
    ELSE strs[1] \o sep \o Join(Tail(strs), sep)

(* ast.unparse: the source text of a node.                                 *)
RECURSIVE unparse(_)
RECURSIVE JoinUnparse(_, _)
JoinUnparse(seq, sep) ==
    IF seq = <<>> THEN ""
    ELSE IF Len(seq) = 1 THEN unparse(seq[1])
    ELSE unparse(seq[1]) \o sep \o JoinUnparse(Tail(seq), sep)

unparse(n) ==
    CASE n.type = "Name" -> n.id
      [] n.type = "Constant" -> n.value
      [] n.type \in {"BinOp", "Compare"} ->
            unparse(n.left) \o " " \o n.op \o " " \o unparse(n.right)
      [] n.type = "Call" -> unparse(n.func) \o "(" \o JoinUnparse(n.args, ", ") \o ")"
      [] n.type = "Tuple" ->
            IF n.ctx = "Store" THEN JoinUnparse(n.elts, ", ")
            ELSE "(" \o JoinUnparse(n.elts, ", ") \o ")"
      [] n.type = "Assign" -> JoinUnparse(n.targets, " = ") \o " = " \o unparse(n.value)
      [] n.type = "AugAssign" ->
            unparse(n.target) \o " " \o n.op \o "= " \o unparse(n.value)
      [] n.type = "Expr" -> unparse(n.value)
      [] n.type = "Break" -> "break"
      [] n.type = "Continue" -> "continue"
      [] n.type = "Pass" -> "pass"
      [] n.type = "Return" ->
            IF n.value = NoValue THEN "return" ELSE "return " \o unparse(n.value)
      [] n.type = "withitem" ->
            IF n.optional_vars = NoValue THEN unparse(n.context_expr)
            ELSE unparse(n.context_expr) \o " as " \o unparse(n.optional_vars)
      [] n.type = "With" ->
            "with " \o JoinUnparse(n.items, ", ") \o ":\n    "
                \o JoinUnparse(n.body, "\n    ")

-----------------------------------------------------------------------------
(* class CFGNode.  A heap h = [nodes, counter] holds the CFGNode objects   *)
(* created so far and the class attribute _id_counter.                     *)

NoLabels == [s \in {} |-> ""]

CFGNode(h, label, node_type) ==
    [nodes |-> Append(h.nodes,
                      [id |-> h.counter, label |-> label, node_type |-> node_type,
                       successors |-> <<>>, edge_labels |-> NoLabels]),
     counter |-> h.counter + 1]

(* The object the last CFGNode(...) call of h returned.                    *)
Created(h) == Len(h.nodes)

add_successor(h, self, node, label) ==
    IF node \in Range(h.nodes[self].successors) THEN h
    ELSE [h EXCEPT
            !.nodes[self].successors = Append(@, node),
            !.nodes[self].edge_labels = IF label # "" THEN (node :> label) @@ @ ELSE @]

(* label[:47] + "..." for labels longer than 50 characters.                *)
Shorten(label) ==
    IF Len(label) > 50 THEN SubSeq(label, 1, 47) \o "..." ELSE label

-----------------------------------------------------------------------------
(* class CFGGenerator.  Every builder returns [h, node]: the heap after    *)
(* the call and the node returned (None when the method returns None).     *)

RECURSIVE build_cfg_from_statements(_, _, _)
RECURSIVE build_statements_loop(_, _, _, _)
RECURSIVE build_if_cfg(_, _, _)
RECURSIVE build_while_cfg(_, _, _)
RECURSIVE build_for_cfg(_, _, _)

(* A branch edge that is added to the branch and to the continuation.     *)
if_link_both(r, condition, next_node, label) ==
    [h |-> IF r.node # None /\ next_node # None
           THEN add_successor(add_successor(r.h, condition, r.node, label),
                              condition, next_node, label)
           ELSE IF r.node # None THEN add_successor(r.h, condition, r.node, label)
           ELSE IF next_node # None
                THEN add_successor(r.h, condition, next_node, label)
                ELSE r.h,
     node |-> condition]

(* if branch: condition.add_successor(branch, label)                       *)
(* elif next_node: condition.add_successor(next_node, label)               *)
(* for the branch r built on the heap r.h; [h, node |-> condition].        *)
if_link(r, condition, next_node, label) ==
    [h |-> IF r.node # None THEN add_successor(r.h, condition, r.node, label)
           ELSE IF next_node # None
                THEN add_successor(r.h, condition, next_node, label)
                ELSE r.h,
     node |-> condition]

(* The true branch of the if whose condition node was just created on h1.  *)
if_true(h1, if_node, next_node) ==
    if_link(build_cfg_from_statements(h1, if_node.body, next_node),
            Created(h1), next_node, "True")

(* An else-branch that is built without the continuation of the if.        *)
if_false_else_unlinked(c, if_node, next_node) ==
    if_link(build_cfg_from_statements(c.h, if_node.orelse, None),
            c.node, next_node, "False")

(* An if without else that gets no "False" edge.                           *)
if_false_no_false_edge(c, if_node, next_node) ==
    IF if_node.orelse # <<>>
    THEN if_link(build_cfg_from_statements(c.h, if_node.orelse, next_node),
                 c.node, next_node, "False")
    ELSE c

(* The false branch, c being the heap and the condition node after the     *)
(* true branch: `if if_node.orelse: ... elif next_node: ...`.              *)
if_false(c, if_node, next_node) ==
    IF if_node.orelse # <<>>
    THEN if_link(build_cfg_from_statements(c.h, if_node.orelse, next_node),
                 c.node, next_node, "False")
    ELSE IF next_node # None
         THEN [h |-> add_successor(c.h, c.node, next_node, "False"), node |-> c.node]
         ELSE c

build_if_cfg(h, if_node, next_node) ==
    if_false(if_true(CFGNode(h, Shorten("if " \o unparse(if_node.test)), "condition"),
                     if_node, next_node),
             if_node, next_node)

(* A loop header that gets an exit edge, to itself, when there is no        *)
(* continuation.                                                           *)
loop_link_exit_always(b, header, next_node, enter, leave) ==
    LET h2 == IF b.node # None THEN add_successor(b.h, header, b.node, enter)
              ELSE add_successor(b.h, header, header, enter)
    IN [h |-> IF next_node # None THEN add_successor(h2, header, next_node, leave)
              ELSE [h2 EXCEPT
                      !.nodes[header].successors = Append(@, header),
                      !.nodes[header].edge_labels = (header :> leave) @@ @],
        node |-> header]

(* The edges of a loop header: to the body b (to itself when the body is   *)
(* empty), and to next_node when there is one.                             *)
loop_link(b, header, next_node, enter, leave) ==
    LET h2 == IF b.node # None THEN add_successor(b.h, header, b.node, enter)
              ELSE add_successor(b.h, header, header, enter)
    IN [h |-> IF next_node # None THEN add_successor(h2, header, next_node, leave)
              ELSE h2,
        node |-> header]

(* A loop body that is built with the continuation of the loop instead of  *)
(* the condition node: no back edge.                                       *)
while_body_no_back_edge(h1, while_node, next_node) ==
    loop_link(build_cfg_from_statements(h1, while_node.body, next_node),
              Created(h1), next_node, "True", "False")

(* The body of the while whose condition node was just created on h1: it   *)
(* is built with the condition node as its continuation.                   *)
while_body(h1, while_node, next_node) ==
    loop_link(build_cfg_from_statements(h1, while_node.body, Created(h1)),
              Created(h1), next_node, "True", "False")

build_while_cfg(h, while_node, next_node) ==
    while_body(CFGNode(h, Shorten("while " \o unparse(while_node.test)), "condition"),
               while_node, next_node)

(* The body of the for whose header node was just created on h1.           *)
for_body(h1, for_node, next_node) ==
    loop_link(build_cfg_from_statements(h1, for_node.body, Created(h1)),
              Created(h1), next_node, "iterate", "done")

build_for_cfg(h, for_node, next_node) ==
    for_body(CFGNode(h, Shorten("for " \o unparse(for_node.target) \o " in "
                                  \o unparse(for_node.iter)), "condition"),
             for_node, next_node)

(* A return node that is linked to the continuation like any statement.    *)
build_return_linked(h, stmt, current) ==
    LET label == IF stmt.value # NoValue THEN "return " \o unparse(stmt.value)
                 ELSE "return"
        h1 == CFGNode(h, label, "return")
        node == Created(h1)
    IN [h |-> IF current # None THEN add_successor(h1, node, current, "") ELSE h1,
        node |-> node]

(* The `return` branch of the loop: the node is not linked to current.     *)
build_return(h, stmt, current) ==
    LET label == IF stmt.value # NoValue THEN "return " \o unparse(stmt.value)
                 ELSE "return"
        h1 == CFGNode(h, label, "return")
    IN [h |-> h1, node |-> Created(h1)]

(* A break or continue node that is not wired to the continuation.         *)
build_control_unlinked(h, stmt, current) ==
    LET h1 == CFGNode(h, unparse(stmt), "control")
    IN [h |-> h1, node |-> Created(h1)]

(* The `break`/`continue` branch of the loop.                              *)
build_control(h, stmt, current) ==
    LET h1 == CFGNode(h, unparse(stmt), "control")
        node == Created(h1)
    IN [h |-> IF current # None THEN add_successor(h1, node, current, "") ELSE h1,
        node |-> node]

(* The `else` branch of the loop: a regular statement.                     *)
build_regular(h, stmt, current) ==
    LET h1 == CFGNode(h, Shorten(unparse(stmt)), "statement")
        node == Created(h1)
    IN [h |-> IF current # None THEN add_successor(h1, node, current, "") ELSE h1,
        node |-> node]

(* One iteration of `for stmt in reversed(statements)`, for statements[i]. *)
build_statement(h, stmt, current) ==
    CASE stmt.type = "If" -> build_if_cfg(h, stmt, current)
      [] stmt.type = "While" -> build_while_cfg(h, stmt, current)
      [] stmt.type = "For" -> build_for_cfg(h, stmt, current)
      [] stmt.type = "Return" -> build_return(h, stmt, current)
      [] stmt.type \in {"Break", "Continue"} -> build_control(h, stmt, current)
      [] OTHER -> build_regular(h, stmt, current)

(* The loop without reversed(): the statements are chained backwards.      *)
RECURSIVE build_statements_loop_forward(_, _, _, _)
loop_rest_forward(r, statements, i) ==
    build_statements_loop_forward(r.h, statements, i - 1, r.node)

build_statements_loop_forward(h, statements, i, current) ==
    IF i = 0 THEN [h |-> h, node |-> current]
    ELSE loop_rest_forward(
             build_statement(h, statements[Len(statements) - i + 1], current),
             statements, i)

(* The iterations that follow the one that returned r (current = r.node).  *)
loop_rest(r, statements, i) ==
    build_statements_loop(r.h, statements, i - 1, r.node)

(* for stmt in reversed(statements), from statements[i] down.              *)
build_statements_loop(h, statements, i, current) ==
    IF i = 0 THEN [h |-> h, node |-> current]
    ELSE loop_rest(build_statement(h, statements[i], current), statements, i)

build_cfg_from_statements(h, statements, next_node) ==
    IF statements = <<>> THEN [h |-> h, node |-> next_node]
    ELSE build_statements_loop(h, statements, Len(statements), next_node)

(* if first_node: entry.add_successor(first_node), for the body b.         *)
entry_link(b, e) ==
    [h |-> IF b.node # None THEN add_successor(b.h, e, b.node, "") ELSE b.h,
     node |-> e]

(* The body built with the entry node as its continuation.                 *)
function_body_back_to_entry(h1, func_node) ==
    entry_link(build_cfg_from_statements(h1, func_node.body, Created(h1)),
               Created(h1))

(* The entry node was just created on h1: the body is built with no        *)
(* continuation.                                                           *)
function_body(h1, func_node) ==
    entry_link(IF func_node.body # <<>>
               THEN build_cfg_from_statements(h1, func_node.body, None)
               ELSE [h |-> h1, node |-> None],
               Created(h1))

(* _build_cfg_from_function on a heap whose counter is whatever the class  *)
(* attribute holds: the counter is reset, then the entry and the body are  *)
(* built.  The CFGNode objects of one call are its own (nodes starts       *)
(* empty); only the counter is shared.                                     *)
build_cfg_from_function(counter, func_node) ==
    function_body(CFGNode([nodes |-> <<>>, counter |-> 0],
                          "def " \o func_node.name \o "("
                              \o Join(func_node.args, ", ") \o ")", "entry"),
                  func_node)

-----------------------------------------------------------------------------
(* The functions handed to the CFG builder.  A block nested in a compound  *)
(* statement has at most MaxLen statements; a body is such a block of      *)
(* plain statements, one compound statement with a plain statement before  *)
(* or after it, two compound statements, or a compound statement nested in *)
(* another one; and the function of Scenario 1.                            *)

MaxLen == 2

CfgAssign == Assign(<<Store("x")>>, BinOp(Load("y"), "+", Constant("1")))
CfgExpr == ExprStmt(Call(Load("print"), <<Load("x")>>))
CfgReturn == Return(Load("x"))
CfgTest == Compare(Load("a"), ">", Constant("0"))
CfgIter == Call(Load("range"), <<Load("n")>>)

Leaf == {CfgAssign, CfgExpr, CfgReturn, Break, Continue}

SeqsUpTo(S, n) == UNION {[1..k -> S] : k \in 0..n}

Single(S) == {<<s>> : s \in S}

CompoundOver(bodies, orelses) ==
    {If(CfgTest, b, e) : b \in bodies, e \in orelses \cup {<<>>}}
        \cup {While(CfgTest, b) : b \in bodies}
        \cup {For(Store("i"), CfgIter, b) : b \in bodies}

Blocks == SeqsUpTo(Leaf, MaxLen) \ {<<>>}
Closing == {CfgAssign, CfgReturn}
Compound == CompoundOver(Blocks, Single(Closing))
SmallCompound == CompoundOver(Single(Leaf), Single(Closing))

FlatBodies ==
    Blocks \cup Single(Compound)
        \cup {<<c, l>> : c \in Compound, l \in Leaf}
        \cup {<<l, c>> : l \in Leaf, c \in Compound}

NestedBodies ==
    LET inner == Single(SmallCompound)
        outer == CompoundOver(inner, {<<CfgAssign>>})
                    \cup {If(CfgTest, <<CfgAssign>>, b) : b \in inner}
    IN {<<c>> \o post : c \in outer, post \in {<<>>, <<CfgAssign>>}}
          \cup {<<c, d>> : c \in SmallCompound,
                          d \in CompoundOver(Single(Closing), {<<CfgReturn>>})}

Scenario1 ==
    FunctionDef("f", <<"a", "b">>,
                <<If(CfgTest, <<Return(Load("a"))>>, <<>>), Return(Load("b"))>>)

(* Statements of a kind the builder has no branch for: pass, and a with    *)
(* statement whose body holds a return.                                    *)
Pass == [type |-> "Pass"]
CfgWith ==
    With(<<WithItem(Call(Load("open"), <<Load("a")>>), Store("x"))>>,
         <<CfgAssign, CfgExpr, CfgReturn>>)
CfgOpaque == {Pass, CfgWith}

OpaqueBodies ==
    LET blocks == {b \in SeqsUpTo(CfgOpaque \cup {CfgAssign, Break}, MaxLen) :
                      \E i \in 1..Len(b) : b[i] \in CfgOpaque}
    IN blocks
          \cup {<<c>> \o post : c \in CompoundOver(blocks, {<<CfgWith>>}),
                                post \in {<<>>, <<CfgReturn>>}}

(* Statements whose text is longer than 50 characters, over the last      *)
(* expression of the module's own test code:                              *)
(* quick_sort(left) + middle + quick_sort(right).                         *)
LongExpr ==
    BinOp(BinOp(Call(Load("quick_sort"), <<Load("left")>>), "+", Load("middle")),
          "+", Call(Load("quick_sort"), <<Load("right")>>))
LongTest == Compare(LongExpr, ">", Constant("0"))
LongAssign == Assign(<<Store("result")>>, LongExpr)
LongReturn == Return(LongExpr)

LongBodies ==
    {<<LongReturn>>, <<LongAssign, LongReturn>>,
     <<If(LongTest, <<CfgAssign>>, <<>>), LongReturn>>,
     <<While(LongTest, <<LongAssign, Continue>>)>>,
     <<For(Store("i"), LongExpr, <<LongAssign, Break>>), CfgReturn>>}

CfgFunctions ==
    {FunctionDef("f", <<"a", "b">>, body) :
        body \in FlatBodies \cup NestedBodies \cup OpaqueBodies \cup LongBodies}
        \cup {Scenario1}

-----------------------------------------------------------------------------
(* The sequential caller: generate_cfg builds the graph of a function and  *)
(* renders it.                                                             *)

NoFunction == FunctionDef("", <<>>, <<>>)
NoAnalyzer == [function_name |-> ""]
NoSource == [parses |-> TRUE, functions |-> <<>>]
NoResult == [n \in {} |-> ""]

(* The renderer, the batch methods and the cleanup script are not running. *)
RenderIdle == clock = 0 /\ renders = <<>>
GenIdle ==
    /\ generator = ""
    /\ source = NoSource
    /\ fn_i = 0
    /\ result = NoResult
    /\ outcomes = <<>>
    /\ returned = NoValue
CleanupIdle == fs = {} /\ deleted = <<>>


Init ==
    /\ func \in CfgFunctions
    /\ nodes = <<>>
    /\ id_counter = 0
    /\ entry = None
    /\ pc = "start"
    /\ visited = {}
    /\ stack = <<>>
    /\ out_nodes = <<>>
    /\ out_edges = <<>>
    /\ calls = <<>>
    /\ dfunc = NoFunction
    /\ analyzer = NoAnalyzer
    /\ stmt_i = 0
    /\ RenderIdle /\ GenIdle /\ CleanupIdle

(* entry_node = self._build_cfg_from_function(node)                        *)
BuildCfgFromFunction ==
    /\ pc \in {"start", "built", "rendered"}
    /\ LET r == build_cfg_from_function(id_counter, func)
       IN /\ nodes' = r.h.nodes
          /\ id_counter' = r.h.counter
          /\ entry' = r.node
    /\ pc' = "built"
    /\ visited' = {}
    /\ stack' = <<>>
    /\ out_nodes' = <<>>
    /\ out_edges' = <<>>
    /\ UNCHANGED <<func, calls, ext_vars, dfg_vars>>

(* _visualize_cfg up to its call of _add_nodes_to_graph(entry_node, ...).  *)
VisualizeCfg ==
    /\ pc = "built"
    /\ visited' = {}
    /\ stack' = <<[node |-> entry, i |-> 0]>>
    /\ out_nodes' = <<>>
    /\ out_edges' = <<>>
    /\ pc' = "rendering"
    /\ UNCHANGED <<func, nodes, id_counter, entry, calls, ext_vars, dfg_vars>>

Top == stack[Len(stack)]
Pop == SubSeq(stack, 1, Len(stack) - 1)

(* A check that never finds the node visited.                              *)
NeverVisited(node) == FALSE

(* if node.id in visited                                                   *)
IsVisited(node) == node.id \in visited

(* _add_nodes_to_graph is entered with a node that was visited: return.    *)
AddNodesVisited ==
    /\ pc = "rendering" /\ stack # <<>> /\ Top.i = 0
    /\ IsVisited(nodes[Top.node])
    /\ stack' = Pop
    /\ UNCHANGED <<func, nodes, id_counter, entry, pc, visited, out_nodes, out_edges,
                   calls, ext_vars, dfg_vars>>

(* A traversal that marks the node object itself when it enters it.       *)
AddNodesNewMarking ==
    /\ pc = "rendering" /\ stack # <<>> /\ Top.i = 0
    /\ ~IsVisited(nodes[Top.node])
    /\ visited' = visited \cup {nodes[Top.node].id}
    /\ nodes' = [nodes EXCEPT ![Top.node].node_type = "visited"]
    /\ out_nodes' = Append(out_nodes, nodes[Top.node].id)
    /\ stack' = [stack EXCEPT ![Len(stack)].i = 1]
    /\ UNCHANGED <<func, id_counter, entry, pc, out_edges, calls, ext_vars, dfg_vars>>

(* _add_nodes_to_graph is entered with a new node: mark it, graph.node.    *)
AddNodesNew ==
    /\ pc = "rendering" /\ stack # <<>> /\ Top.i = 0
    /\ ~IsVisited(nodes[Top.node])
    /\ visited' = visited \cup {nodes[Top.node].id}
    /\ out_nodes' = Append(out_nodes, nodes[Top.node].id)
    /\ stack' = [stack EXCEPT ![Len(stack)].i = 1]
    /\ UNCHANGED <<func, nodes, id_counter, entry, pc, out_edges, calls, ext_vars, dfg_vars>>

EdgeLabel(node, successor) ==
    IF successor \in DOMAIN node.edge_labels THEN node.edge_labels[successor] ELSE ""

(* An iteration that draws no edge to a successor that was visited.        *)
AddNodesEdgeSkippingVisited ==
    /\ pc = "rendering" /\ stack # <<>>
    /\ Top.i >= 1 /\ Top.i <= Len(nodes[Top.node].successors)
    /\ LET node == nodes[Top.node]
           successor == node.successors[Top.i]
       IN IF nodes[successor].id \in visited
          THEN /\ out_edges' = out_edges
               /\ stack' = [stack EXCEPT ![Len(stack)].i = @ + 1]
          ELSE /\ out_edges' = Append(out_edges,
                                      [src |-> node.id, dst |-> nodes[successor].id,
                                       label |-> IF successor \in DOMAIN node.edge_labels
                                                 THEN node.edge_labels[successor]
                                                 ELSE ""])
               /\ stack' = Append([stack EXCEPT ![Len(stack)].i = @ + 1],
                                  [node |-> successor, i |-> 0])
    /\ UNCHANGED <<func, nodes, id_counter, entry, pc, visited, out_nodes, calls, ext_vars,
                   dfg_vars>>

(* One iteration of `for successor in node.successors`: graph.edge and the *)
(* recursive call.                                                         *)
AddNodesEdge ==
    /\ pc = "rendering" /\ stack # <<>>
    /\ Top.i >= 1 /\ Top.i <= Len(nodes[Top.node].successors)
    /\ LET node == nodes[Top.node]
           successor == node.successors[Top.i]
       IN /\ out_edges' = Append(out_edges,
                                 [src |-> node.id, dst |-> nodes[successor].id,
                                  label |-> EdgeLabel(node, successor)])
          /\ stack' = Append([stack EXCEPT ![Len(stack)].i = @ + 1],
                             [node |-> successor, i |-> 0])
    /\ UNCHANGED <<func, nodes, id_counter, entry, pc, visited, out_nodes, calls, ext_vars,
                   dfg_vars>>

(* The loop over the successors is over: _add_nodes_to_graph returns.      *)
AddNodesReturn ==
    /\ pc = "rendering" /\ stack # <<>>
    /\ Top.i > Len(nodes[Top.node].successors)
    /\ stack' = Pop
    /\ UNCHANGED <<func, nodes, id_counter, entry, pc, visited, out_nodes, out_edges,
                   calls, ext_vars, dfg_vars>>

(* The traversal has returned to _visualize_cfg, which renders the graph.  *)
VisualizeDone ==
    /\ pc = "rendering" /\ stack = <<>>
    /\ pc' = "rendered"
    /\ UNCHANGED <<func, nodes, id_counter, entry, visited, stack, out_nodes, out_edges,
                   calls, ext_vars, dfg_vars>>

Next ==
    \/ BuildCfgFromFunction
    \/ VisualizeCfg
    \/ AddNodesVisited
    \/ AddNodesNew
    \/ AddNodesEdge
    \/ AddNodesReturn
    \/ VisualizeDone

Spec == Init /\ [][Next]_vars

-----------------------------------------------------------------------------
(* Two callers run _build_cfg_from_function at the same time, each on its  *)
(* own function.  The CFGNode objects of a call are its own; the class     *)
(* attribute CFGNode._id_counter is the one thing the calls share.  A call *)
(* resets the counter and then, for each CFGNode it creates, reads the     *)
(* counter into self.id and increments it (a load and a store).  Which     *)
(* nodes a call creates, in which order, and how it links them does not    *)
(* depend on the ids: add_successor compares objects.                      *)

Callers == {"A", "B"}

ConcFunctions ==
    {Scenario1,
     FunctionDef("g", <<"n">>, <<While(CfgTest, <<CfgAssign>>), CfgReturn>>)}

(* The CFGNode objects one call on func_node creates, in creation order.   *)
NodesCreated(func_node) == build_cfg_from_function(0, func_node).h.nodes

(* The graph of a call whose k-th CFGNode got the id ids[k].               *)
WithIds(ns, ids) == [k \in 1..Len(ns) |-> [ns[k] EXCEPT !.id = ids[k]]]

InitConc ==
    /\ calls \in [Callers -> {[pc |-> "reset", func |-> f, ids |-> <<>>, tmp |-> 0] :
                                f \in ConcFunctions}]
    /\ id_counter = 0
    /\ func = NoFunction
    /\ nodes = <<>>
    /\ entry = None
    /\ pc = "start"
    /\ visited = {}
    /\ stack = <<>>
    /\ out_nodes = <<>>
    /\ out_edges = <<>>
    /\ dfunc = NoFunction
    /\ analyzer = NoAnalyzer
    /\ stmt_i = 0
    /\ RenderIdle /\ GenIdle /\ CleanupIdle

conc_frame ==
    <<func, nodes, entry, pc, visited, stack, out_nodes, out_edges, dfg_vars, ext_vars>>

(* CFGNode._id_counter = 0                                                 *)
ConcReset(t) ==
    /\ calls[t].pc = "reset"
    /\ id_counter' = 0
    /\ calls' = [calls EXCEPT ![t].pc = "assign_id"]
    /\ UNCHANGED conc_frame

(* self.id = CFGNode._id_counter                                           *)
ConcAssignId(t) ==
    /\ calls[t].pc = "assign_id"
    /\ calls' = [calls EXCEPT ![t].ids = Append(@, id_counter), ![t].pc = "load"]
    /\ UNCHANGED <<id_counter, conc_frame>>

(* CFGNode._id_counter += 1: the load                                      *)
ConcLoadCounter(t) ==
    /\ calls[t].pc = "load"
    /\ calls' = [calls EXCEPT ![t].tmp = id_counter, ![t].pc = "store"]
    /\ UNCHANGED <<id_counter, conc_frame>>

(* CFGNode._id_counter += 1: the store; then the next CFGNode, or return.  *)
ConcStoreCounter(t) ==
    /\ calls[t].pc = "store"
    /\ id_counter' = calls[t].tmp + 1
    /\ calls' = [calls EXCEPT
                    ![t].pc = IF Len(calls[t].ids) = Len(NodesCreated(calls[t].func))
                              THEN "done" ELSE "assign_id"]
    /\ UNCHANGED conc_frame

NextConc ==
    \E t \in Callers :
        \/ ConcReset(t)
        \/ ConcAssignId(t)
        \/ ConcLoadCounter(t)
        \/ ConcStoreCounter(t)

SpecConc == InitConc /\ [][NextConc]_vars

(* The graph the call of t has returned.                                   *)
ConcGraph(t) == WithIds(NodesCreated(calls[t].func), calls[t].ids)

-----------------------------------------------------------------------------
(* class DataFlowAnalyzer(ast.NodeVisitor).  Every visit_* method returns  *)
(* the analyzer after the call.                                            *)

DataFlowAnalyzer(function_name) ==
    [function_name |-> function_name,
     variables |-> [n \in {} |-> <<>>],
     current_target |-> None,
     current_dependencies |-> {},
     in_target_function |-> FALSE]

(* self.variables[name] = {'type': ..., 'dependencies': ..., 'line': ...}  *)
SetVariable(self, name, type, dependencies, line) ==
    [self EXCEPT !.variables =
        [n \in DOMAIN self.variables \cup {name} |->
            IF n = name
            THEN [type |-> type, dependencies |-> dependencies, line |-> line]
            ELSE self.variables[n]]]

(* ast.iter_child_nodes for the nodes NodeVisitor.generic_visit is used on. *)
Children(node) ==
    CASE node.type \in {"BinOp", "Compare"} -> <<node.left, node.right>>
      [] node.type = "Call" -> <<node.func>> \o node.args
      [] node.type = "Tuple" -> node.elts
      [] node.type = "Expr" -> <<node.value>>
      [] node.type = "If" -> <<node.test>> \o node.body \o node.orelse
      [] node.type = "While" -> <<node.test>> \o node.body
      [] node.type = "Module" -> node.body
      [] OTHER -> <<>>

RECURSIVE visit(_, _)
RECURSIVE visit_all(_, _)

(* for child in children: self.visit(child)                                *)
visit_all(self, children) ==
    IF children = <<>> THEN self
    ELSE visit_all(visit(self, Head(children)), Tail(children))

generic_visit(self, node) == visit_all(self, Children(node))

visit_Name(self, node) ==
    IF self.in_target_function /\ node.ctx = "Load"
    THEN [self EXCEPT !.current_dependencies = @ \cup {node.id}]
    ELSE self

(* The names an assignment target binds in visit_Assign: the target when   *)
(* it is a Name, the Name elements of a Tuple or List target.              *)
TargetNames(target) ==
    CASE target.type = "Name" -> <<target.id>>
      [] target.type \in {"Tuple", "List"} ->
            LET names == [k \in 1..Len(target.elts) |->
                            IF target.elts[k].type = "Name"
                            THEN <<target.elts[k].id>> ELSE <<>>]
                cat[k \in 0..Len(names)] ==
                    IF k = 0 THEN <<>> ELSE cat[k - 1] \o names[k]
            IN cat[Len(names)]
      [] OTHER -> <<>>

RECURSIVE set_variables(_, _, _, _, _)
set_variables(self, names, type, dependencies, line) ==
    IF names = <<>> THEN self
    ELSE set_variables(SetVariable(self, Head(names), type, dependencies, line),
                       Tail(names), type, dependencies, line)

RECURSIVE assign_targets(_, _, _, _)
assign_targets(self, targets, dependencies, line) ==
    IF targets = <<>> THEN self
    ELSE assign_targets(
            set_variables(self, TargetNames(Head(targets)), "variable",
                          dependencies, line),
            Tail(targets), dependencies, line)

(* An assignment that adds to the dependencies of the record it replaces.  *)
visit_Assign_accumulating(self, node) ==
    IF ~self.in_target_function THEN self
    ELSE LET s1 == visit(self, node.value)
             dependencies == s1.current_dependencies
         IN assign_targets(s1, node.targets, dependencies, node.lineno)

visit_Assign(self, node) ==
    IF ~self.in_target_function THEN self
    ELSE LET s1 == visit([self EXCEPT !.current_dependencies = {}], node.value)
             dependencies == s1.current_dependencies
         IN assign_targets(s1, node.targets, dependencies, node.lineno)

(* An augmented assignment that leaves out the old value of its target.    *)
visit_AugAssign_without_target(self, node) ==
    IF ~self.in_target_function THEN self
    ELSE LET s1 == visit([self EXCEPT !.current_dependencies = {}], node.value)
             dependencies == s1.current_dependencies
         IN IF node.target.type = "Name"
            THEN SetVariable(s1, node.target.id, "variable", dependencies,
                             node.lineno)
            ELSE s1

visit_AugAssign(self, node) ==
    IF ~self.in_target_function THEN self
    ELSE LET s1 == visit([self EXCEPT !.current_dependencies = {}], node.value)
             dependencies == s1.current_dependencies
         IN IF node.target.type = "Name"
            THEN SetVariable(s1, node.target.id, "variable",
                             dependencies \cup {node.target.id}, node.lineno)
            ELSE s1

(* A for loop whose body is not visited.                                   *)
visit_For_without_body(self, node) ==
    IF ~self.in_target_function THEN self
    ELSE LET s1 == visit([self EXCEPT !.current_dependencies = {}], node.iter)
             dependencies == s1.current_dependencies
         IN IF node.target.type = "Name"
            THEN SetVariable(s1, node.target.id, "loop_var", dependencies,
                             node.lineno)
            ELSE s1

visit_For(self, node) ==
    IF ~self.in_target_function THEN self
    ELSE LET s1 == visit([self EXCEPT !.current_dependencies = {}], node.iter)
             dependencies == s1.current_dependencies
             s2 == IF node.target.type = "Name"
                   THEN SetVariable(s1, node.target.id, "loop_var", dependencies,
                                    node.lineno)
                   ELSE s1
         IN visit_all(s2, node.body)

RECURSIVE with_items(_, _, _)
with_items(self, items, line) ==
    IF items = <<>> THEN self
    ELSE LET item == Head(items)
             s1 == visit([self EXCEPT !.current_dependencies = {}], item.context_expr)
             dependencies == s1.current_dependencies
             s2 == IF item.optional_vars # NoValue /\ item.optional_vars.type = "Name"
                   THEN SetVariable(s1, item.optional_vars.id, "context_var",
                                    dependencies, line)
                   ELSE s1
         IN with_items(s2, Tail(items), line)

visit_With(self, node) ==
    IF ~self.in_target_function THEN self
    ELSE visit_all(with_items(self, node.items, node.lineno), node.body)

visit_Return(self, node) ==
    IF ~self.in_target_function \/ node.value = NoValue THEN self
    ELSE LET s1 == visit([self EXCEPT !.current_dependencies = {}], node.value)
         IN SetVariable(s1, "__return__", "return", s1.current_dependencies,
                        node.lineno)

(* visit_FunctionDef up to its loop over node.body: the flag and the       *)
(* parameters.                                                             *)
enter_FunctionDef(self, node) ==
    set_variables([self EXCEPT !.in_target_function = TRUE],
                  node.args, "parameter", {}, node.lineno)

(* visit_FunctionDef after its loop over node.body.                        *)
leave_FunctionDef(self) == [self EXCEPT !.in_target_function = FALSE]

visit_FunctionDef(self, node) ==
    IF node.name = self.function_name
    THEN leave_FunctionDef(visit_all(enter_FunctionDef(self, node), node.body))
    ELSE self

(* NodeVisitor.visit: the visit_<class> method, or generic_visit.          *)
visit(self, node) ==
    CASE node.type = "FunctionDef" -> visit_FunctionDef(self, node)
      [] node.type = "Assign" -> visit_Assign(self, node)
      [] node.type = "AugAssign" -> visit_AugAssign(self, node)
      [] node.type = "For" -> visit_For(self, node)
      [] node.type = "With" -> visit_With(self, node)
      [] node.type = "Name" -> visit_Name(self, node)
      [] node.type = "Return" -> visit_Return(self, node)
      [] OTHER -> generic_visit(self, node)

-----------------------------------------------------------------------------
(* The functions handed to the DFG analyzer: bodies of at most MaxLen      *)
(* statements, each an assignment (plain, chained, unpacking, augmented),  *)
(* a return, an expression statement, or a for, if, while or with around   *)
(* such statements; and the function of Scenario 2.  The statements carry  *)
(* the line numbers a parser gives them.                                   *)

RECURSIVE number_block(_, _)
number_stmt(s, line) ==
    LET at == [lineno |-> line] @@ s
    IN CASE s.type \in {"If", "For"} ->
              LET b == number_block(s.body, line + 1)
                  e == IF s.orelse = <<>> THEN [stmts |-> <<>>, line |-> b.line]
                       ELSE number_block(s.orelse, b.line + 1)
              IN [stmt |-> [at EXCEPT !.body = b.stmts, !.orelse = e.stmts],
                  line |-> e.line]
         [] s.type \in {"While", "With", "FunctionDef"} ->
              LET b == number_block(s.body, line + 1)
              IN [stmt |-> [at EXCEPT !.body = b.stmts], line |-> b.line]
         [] OTHER -> [stmt |-> at, line |-> line + 1]
number_block(stmts, line) ==
    IF stmts = <<>> THEN [stmts |-> <<>>, line |-> line]
    ELSE LET first == number_stmt(Head(stmts), line)
             rest == number_block(Tail(stmts), first.line)
         IN [stmts |-> <<first.stmt>> \o rest.stmts, line |-> rest.line]

(* The parsed function: the def on line 1.                                 *)
Parsed(f) == number_stmt(f, 1).stmt

DfgVars == {"x", "y"}
DfgValues ==
    {Constant("0"), Load("a"), BinOp(Load("b"), "+", Constant("1")),
     Call(Load("g"), <<Load("x")>>)}
DfgRange == Call(Load("range"), <<Load("a")>>)

DfgSimple ==
    {Assign(<<Store(v)>>, e) : v \in DfgVars, e \in DfgValues}
        \cup {Assign(<<TupleT(<<Store("x"), Store("y")>>, "Store")>>,
                     TupleT(<<Load("b"), Load("a")>>, "Load")),
              Assign(<<Store("x"), Store("y")>>, Load("a"))}
        \cup {AugAssign(Store(v), "+", e) : v \in DfgVars, e \in {Load("y"), Constant("1")}}
        \cup {Return(Load("x")), Return(NoValue), ExprStmt(Call(Load("g"), <<Load("a")>>))}

DfgInner ==
    {Assign(<<Store("x")>>, Load("a")), Assign(<<Store("y")>>, Call(Load("g"), <<Load("x")>>)),
     AugAssign(Store("x"), "+", Load("y")), Return(Load("x"))}

DfgCompound ==
    {For(Store("i"), DfgRange, <<s>>) : s \in DfgInner}
        \cup {For(Store("x"), Load("y"),
                  <<Assign(<<Store("y")>>, Load("x")), AugAssign(Store("y"), "+", Load("i"))>>)}
        \cup {If(CfgTest, <<s>>, <<>>) : s \in DfgInner}
        \cup {If(CfgTest, <<Assign(<<Store("x")>>, Load("a"))>>,
                 <<Assign(<<Store("x")>>, Load("b"))>>),
              While(CfgTest, <<AugAssign(Store("x"), "+", Load("b"))>>),
              With(<<WithItem(Call(Load("open"), <<Load("a")>>), Store("x"))>>,
                   <<Assign(<<Store("y")>>, Call(Load("g"), <<Load("x")>>))>>)}

DfgStatements == DfgSimple \cup DfgCompound

Scenario2 ==
    FunctionDef("g", <<"n">>,
                <<Assign(<<Store("s")>>, Constant("0")),
                  For(Store("i"), Call(Load("range"), <<Load("n")>>),
                      <<AugAssign(Store("s"), "+", Load("i"))>>),
                  Return(Load("s"))>>)

DfgFunctions ==
    {Parsed(FunctionDef("f", <<"a", "b">>, body)) :
        body \in SeqsUpTo(DfgStatements, MaxLen) \ {<<>>}}
        \cup {Parsed(Scenario2)}

-----------------------------------------------------------------------------
(* generate_dfg(code, function_name) on a module that holds the function   *)
(* dfunc: a new DataFlowAnalyzer visits the tree; the loop of              *)
(* visit_FunctionDef over the body takes one step for each statement.      *)

InitDFG ==
    /\ dfunc \in DfgFunctions
    /\ analyzer = DataFlowAnalyzer(dfunc.name)
    /\ stmt_i = 0
    /\ pc = "start"
    /\ func = NoFunction
    /\ nodes = <<>>
    /\ id_counter = 0
    /\ entry = None
    /\ visited = {}
    /\ stack = <<>>
    /\ out_nodes = <<>>
    /\ out_edges = <<>>
    /\ calls = <<>>
    /\ RenderIdle /\ GenIdle /\ CleanupIdle

(* analyzer.visit(tree) reaches the def of the target function.            *)
DfgEnterFunction ==
    /\ pc = "start"
    /\ dfunc.name = analyzer.function_name
    /\ analyzer' = enter_FunctionDef(analyzer, dfunc)
    /\ stmt_i' = 1
    /\ pc' = "visiting"
    /\ UNCHANGED <<dfunc, cfg_vars, calls, ext_vars>>

(* for stmt in node.body: self.visit(stmt)                                 *)
DfgVisitStatement ==
    /\ pc = "visiting"
    /\ stmt_i <= Len(dfunc.body)
    /\ analyzer' = visit(analyzer, dfunc.body[stmt_i])
    /\ stmt_i' = stmt_i + 1
    /\ UNCHANGED <<dfunc, pc, cfg_vars, calls, ext_vars>>

(* self.in_target_function = False, and analyzer.visit(tree) returns.      *)
DfgLeaveFunction ==
    /\ pc = "visiting"
    /\ stmt_i > Len(dfunc.body)
    /\ analyzer' = leave_FunctionDef(analyzer)
    /\ pc' = "analyzed"
    /\ UNCHANGED <<dfunc, stmt_i, cfg_vars, calls, ext_vars>>

NextDFG ==
    \/ DfgEnterFunction
    \/ DfgVisitStatement
    \/ DfgLeaveFunction

SpecDFG == InitDFG /\ [][NextDFG]_vars

-----------------------------------------------------------------------------
(* The statements of a function and the nodes that stand for them.         *)
(* A block is built last statement first, a compound statement's own node  *)
(* before the nodes of its blocks, so the node of every statement is       *)
(* fixed by the numbers of nodes of the statements around it.              *)

RECURSIVE BlockCount(_)
StmtCount(s) ==
    CASE s.type = "If" -> 1 + BlockCount(s.body) + BlockCount(s.orelse)
      [] s.type \in {"While", "For"} -> 1 + BlockCount(s.body)
      [] OTHER -> 1
BlockCount(stmts) ==
    IF stmts = <<>> THEN 0 ELSE StmtCount(Head(stmts)) + BlockCount(Tail(stmts))

(* The occurrences [stmt, node, next] of the statements of a block built   *)
(* with continuation next when base nodes exist: node stands for stmt and  *)
(* next is the continuation in force when stmt is built.                   *)
RECURSIVE Occ(_, _, _)
RECURSIVE OccFrom(_, _, _, _)
OccFrom(stmts, i, cur, base) ==
    IF i = 0 THEN {}
    ELSE LET s == stmts[i]
             head == base + 1
             nested ==
                CASE s.type = "If" ->
                        Occ(s.body, cur, head)
                            \cup Occ(s.orelse, cur, head + BlockCount(s.body))
                  [] s.type \in {"While", "For"} -> Occ(s.body, head, head)
                  [] OTHER -> {}
         IN {[stmt |-> s, node |-> head, next |-> cur]} \cup nested
                \cup OccFrom(stmts, i - 1, head, base + StmtCount(s))
Occ(stmts, next, base) == OccFrom(stmts, Len(stmts), next, base)

AllOcc == Occ(func.body, None, 1)

(* The blocks [stmts, next, base] of a function: its body and the blocks   *)
(* of its compound statements.                                             *)
BlocksOf(o) ==
    CASE o.stmt.type = "If" ->
            {[stmts |-> o.stmt.body, next |-> o.next, base |-> o.node],
             [stmts |-> o.stmt.orelse, next |-> o.next,
              base |-> o.node + BlockCount(o.stmt.body)]}
      [] o.stmt.type \in {"While", "For"} ->
            {[stmts |-> o.stmt.body, next |-> o.node, base |-> o.node]}
      [] OTHER -> {}
AllBlocks ==
    {[stmts |-> func.body, next |-> None, base |-> 1]}
        \cup UNION {BlocksOf(o) : o \in AllOcc}

(* The node a block starts with: the node of its first statement, or its   *)
(* continuation when it is empty.                                          *)
FirstOf(stmts, next, base) ==
    IF stmts = <<>> THEN next ELSE base + BlockCount(Tail(stmts)) + 1

(* The last nodes of a statement: the nodes from which control leaves it   *)
(* for its continuation (Exits leaves out the return nodes, which end the  *)
(* function).                                                              *)
RECURSIVE LastNodes(_, _, _)
LastNodes(s, head, with_returns) ==
    CASE s.type = "Return" -> IF with_returns THEN {head} ELSE {}
      [] s.type = "If" ->
            (IF s.body = <<>> THEN {head}
             ELSE LastNodes(s.body[Len(s.body)], head + 1, with_returns))
            \cup
            (IF s.orelse = <<>> THEN {head}
             ELSE LastNodes(s.orelse[Len(s.orelse)], head + BlockCount(s.body) + 1,
                            with_returns))
      [] OTHER -> {head}
BlockLast(stmts, base, with_returns) ==
    IF stmts = <<>> THEN {} ELSE LastNodes(stmts[Len(stmts)], base + 1, with_returns)

(* No return statement at any depth / the block can run to its end.        *)
RECURSIVE NoReturn(_)
NoReturn(stmts) ==
    \A i \in 1..Len(stmts) :
        /\ stmts[i].type # "Return"
        /\ stmts[i].type = "If" => NoReturn(stmts[i].body) /\ NoReturn(stmts[i].orelse)
        /\ stmts[i].type \in {"While", "For"} => NoReturn(stmts[i].body)
RECURSIVE Falls(_)
Falls(stmts) ==
    \A i \in 1..Len(stmts) :
        /\ stmts[i].type # "Return"
        /\ stmts[i].type = "If" => Falls(stmts[i].body) \/ Falls(stmts[i].orelse)

Succ(k) == Range(nodes[k].successors)
RECURSIVE ReachFrom(_)
ReachFrom(S) ==
    LET N == S \cup UNION {Succ(k) : k \in S}
    IN IF N = S THEN S ELSE ReachFrom(N)

HasEdge(k, target, label) ==
    /\ target \in Succ(k)
    /\ EdgeLabel(nodes[k], target) = label

-----------------------------------------------------------------------------
(* C1: the node of every return statement has kind `return` and no          *)
(* successor, whatever continuation was in force when it was built, and no *)
(* node of kind `return` has a successor.                                  *)
C1_ReturnHasNoSuccessor ==
    pc = "built" =>
        /\ \A o \in AllOcc :
              o.stmt.type = "Return" =>
                  /\ nodes[o.node].node_type = "return"
                  /\ nodes[o.node].successors = <<>>
        /\ \A k \in 1..Len(nodes) :
              nodes[k].node_type = "return" => nodes[k].successors = <<>>

(* A built function with a return that ends an if-branch and a return that *)
(* ends a loop body, both built with a continuation in force.              *)
C1_Witness ==
    /\ pc = "built"
    /\ \E o \in AllOcc :
          /\ o.stmt.type = "If" /\ o.next # None
          /\ o.stmt.body[Len(o.stmt.body)].type = "Return"
    /\ \E o \in AllOcc :
          /\ o.stmt.type \in {"While", "For"}
          /\ o.stmt.body[Len(o.stmt.body)].type = "Return"

-----------------------------------------------------------------------------
(* C2 as stated: for every while statement the "True" edge of the          *)
(* condition node leads to the first node of the body, every last node of  *)
(* the body has the condition node as a successor, and there is a cycle    *)
(* through the condition node.                                             *)
C2_Original ==
    pc = "built" =>
        \A o \in AllOcc :
            o.stmt.type = "While" =>
                LET first == FirstOf(o.stmt.body, o.node, o.node)
                IN /\ HasEdge(o.node, first, "True")
                   /\ \A e \in BlockLast(o.stmt.body, o.node, TRUE) : o.node \in Succ(e)
                   /\ o.node \in ReachFrom({first})

(* C2, amended: the "True" edge leads to the first node of the body; every *)
(* last node of the body that is not a return node has the condition node  *)
(* as a successor; and the CFG has a cycle through the condition node      *)
(* exactly when the body can run to its end without returning.             *)
C2_WhileBackEdge ==
    pc = "built" =>
        \A o \in AllOcc :
            o.stmt.type = "While" =>
                LET first == FirstOf(o.stmt.body, o.node, o.node)
                IN /\ HasEdge(o.node, first, "True")
                   /\ nodes[o.node].successors[1] = first
                   /\ \A e \in BlockLast(o.stmt.body, o.node, FALSE) : o.node \in Succ(e)
                   /\ \A e \in BlockLast(o.stmt.body, o.node, TRUE) \
                                BlockLast(o.stmt.body, o.node, FALSE) : Succ(e) = {}
                   /\ (o.node \in ReachFrom({first})) <=> Falls(o.stmt.body)

(* A built while loop whose body ends in a plain statement, with the back  *)
(* edge from that statement's node to the condition node.                  *)
C2_Witness ==
    /\ pc = "built"
    /\ \E o \in AllOcc :
          /\ o.stmt.type = "While"
          /\ Len(o.stmt.body) = 2
          /\ o.stmt.body[2].type \in {"Assign", "Expr"}
          /\ o.node \in Succ(o.node + 1)
          /\ o.node \in ReachFrom({FirstOf(o.stmt.body, o.node, o.node)})

-----------------------------------------------------------------------------
(* C3 as stated: an if/else with two non-empty branches without return has *)
(* exactly the edges "True" and "False", and there is one node that is a   *)
(* successor of the last nodes of both branches.                           *)
IfElseOcc ==
    {o \in AllOcc :
        /\ o.stmt.type = "If"
        /\ o.stmt.body # <<>> /\ o.stmt.orelse # <<>>
        /\ NoReturn(o.stmt.body) /\ NoReturn(o.stmt.orelse)}

BranchLast(o) ==
    BlockLast(o.stmt.body, o.node, TRUE)
        \cup BlockLast(o.stmt.orelse, o.node + BlockCount(o.stmt.body), TRUE)

TwoEdges(o) ==
    LET c == nodes[o.node]
    IN /\ Len(c.successors) = 2
       /\ c.successors[1] = FirstOf(o.stmt.body, o.next, o.node)
       /\ c.successors[2] =
              FirstOf(o.stmt.orelse, o.next, o.node + BlockCount(o.stmt.body))
       /\ c.successors[1] # c.successors[2]
       /\ EdgeLabel(c, c.successors[1]) = "True"
       /\ EdgeLabel(c, c.successors[2]) = "False"

C3_Original ==
    pc = "built" =>
        \A o \in IfElseOcc :
            /\ TwoEdges(o)
            /\ \E c \in 1..Len(nodes) : \A e \in BranchLast(o) : c \in Succ(e)

(* C3, amended: the condition node has exactly the edges "True" and        *)
(* "False"; when the if/else was built with a continuation node, that node *)
(* is a successor of the last nodes of both branches; when it was built    *)
(* with none (it ends the function), those last nodes have no successor    *)
(* outside their own loops.                                                *)
C3_IfElseConverges ==
    pc = "built" =>
        \A o \in IfElseOcc :
            /\ TwoEdges(o)
            /\ BranchLast(o) # {}
            /\ o.next # None => \A e \in BranchLast(o) : o.next \in Succ(e)
            /\ o.next = None =>
                  \A e \in BranchLast(o) :
                      \/ Succ(e) = {}
                      \/ nodes[e].node_type = "condition" /\ Len(nodes[e].successors) = 1

(* A built if/else followed by a statement: the node of that statement is  *)
(* the successor of the last node of each branch.                          *)
C3_Witness ==
    /\ pc = "built"
    /\ \E o \in IfElseOcc :
          /\ o.next # None
          /\ Cardinality(BranchLast(o)) = 2
          /\ \A e \in BranchLast(o) : nodes[e].successors = <<o.next>>

-----------------------------------------------------------------------------
(* C4: a block of N straight-line statements built with a continuation     *)
(* node gets exactly N nodes of kind `statement`, labelled in source order *)
(* by its statements, each with exactly one successor: the node of the     *)
(* next statement, or the continuation for the last one; and the graph has *)
(* no node besides the entry and the nodes of the statements.              *)
StraightLine(stmts) ==
    \A i \in 1..Len(stmts) :
        stmts[i].type \notin {"If", "While", "For", "Return", "Break", "Continue"}

C4_StraightLinePath ==
    pc = "built" =>
        /\ Len(nodes) = 1 + BlockCount(func.body)
        /\ \A b \in AllBlocks :
              (b.next # None /\ StraightLine(b.stmts)) =>
                  LET N == Len(b.stmts)
                      node(i) == b.base + (N - i) + 1
                  IN \A i \in 1..N :
                        /\ nodes[node(i)].node_type = "statement"
                        /\ nodes[node(i)].label = Shorten(unparse(b.stmts[i]))
                        /\ nodes[node(i)].successors =
                              <<IF i < N THEN node(i + 1) ELSE b.next>>
                        /\ nodes[node(i)].edge_labels = NoLabels

(* A built loop whose body is two different plain statements: the path     *)
(* first statement, second statement, loop header.                         *)
C4_Witness ==
    /\ pc = "built"
    /\ \E b \in AllBlocks :
          /\ b.next # None /\ StraightLine(b.stmts) /\ Len(b.stmts) = MaxLen
          /\ b.stmts[1] # b.stmts[2]
          /\ nodes[b.base + MaxLen].successors = <<b.base + MaxLen - 1>>
          /\ nodes[b.base + 1].successors = <<b.next>>

-----------------------------------------------------------------------------
(* The CFG of Scenario 1: def f(a, b): if a > 0: return a; return b.       *)
Scenario1Graph ==
    /\ Len(nodes) = 4
    /\ \E e, c, ra, rb \in 1..4 :
          /\ e = entry
          /\ nodes[e].node_type = "entry" /\ nodes[e].successors = <<c>>
          /\ nodes[c].node_type = "condition" /\ nodes[c].label = "if a > 0"
          /\ nodes[c].successors = <<ra, rb>>
          /\ EdgeLabel(nodes[c], ra) = "True" /\ EdgeLabel(nodes[c], rb) = "False"
          /\ nodes[ra].node_type = "return" /\ nodes[ra].label = "return a"
          /\ nodes[rb].node_type = "return" /\ nodes[rb].label = "return b"
          /\ nodes[ra].successors = <<>> /\ nodes[rb].successors = <<>>

IfOcc == {o \in AllOcc : o.stmt.type = "If" /\ o.stmt.orelse = <<>>}

(* C5 as stated: an if without else has a "True" edge to the first node of *)
(* its body and a "False" edge to the continuation, and Scenario 1 gives   *)
(* the graph entry -> condition -> {return a, return b}.                   *)
C5_Original ==
    pc = "built" =>
        /\ \A o \in IfOcc :
              /\ HasEdge(o.node, FirstOf(o.stmt.body, o.next, o.node), "True")
              /\ HasEdge(o.node, o.next, "False")
        /\ func = Scenario1 => Scenario1Graph

(* C5, amended: an if without else has a "True" edge to the first node of  *)
(* its body; when it was built with a continuation node it has a "False"   *)
(* edge to that node and no other edge, and when it was built with none    *)
(* (it ends the function) the "True" edge is its only edge; Scenario 1     *)
(* gives the graph entry -> condition -> {return a, return b}.             *)
C5_IfWithoutElse ==
    pc = "built" =>
        /\ \A o \in IfOcc :
              LET first == FirstOf(o.stmt.body, o.next, o.node)
              IN /\ HasEdge(o.node, first, "True")
                 /\ first = o.node + BlockCount(Tail(o.stmt.body)) + 1
                 /\ o.next # None =>
                        /\ HasEdge(o.node, o.next, "False")
                        /\ nodes[o.node].successors = <<first, o.next>>
                 /\ o.next = None => nodes[o.node].successors = <<first>>
        /\ func = Scenario1 => Scenario1Graph

(* Scenario 1 is built.                                                    *)
C5_Witness ==
    /\ pc = "built"
    /\ func = Scenario1
    /\ Scenario1Graph
    /\ \E o \in IfOcc : o.next # None /\ HasEdge(o.node, o.next, "False")

-----------------------------------------------------------------------------
(* C7: the traversal of _add_nodes_to_graph terminates on every CFG of the *)
(* builder and emits every node reachable from the entry exactly once.     *)
(* No node is emitted twice and the emitted nodes are the visited ones;    *)
(* the edges emitted never outnumber the edges of the graph nor the open   *)
(* calls its nodes; every step of the traversal raises the measure         *)
(* 2 * edges emitted + nodes visited - open calls, which those bounds      *)
(* limit; the traversal is never stuck; and when it is over the emitted    *)
(* nodes are exactly the nodes reachable from the entry.                   *)
NoDuplicates(seq) == \A i, j \in 1..Len(seq) : seq[i] = seq[j] => i = j

RECURSIVE SumLen(_)
SumLen(ns) == IF ns = <<>> THEN 0 ELSE Len(Head(ns).successors) + SumLen(Tail(ns))

TraversalMeasure == 2 * Len(out_edges) + Cardinality(visited) - Len(stack)

C7_TraversalState ==
    pc \in {"rendering", "rendered"} =>
        /\ NoDuplicates(out_nodes)
        /\ Range(out_nodes) = visited
        /\ Len(out_edges) <= SumLen(nodes)
        /\ Len(stack) <= Len(nodes) + 1
        /\ pc = "rendering" =>
              ENABLED (AddNodesVisited \/ AddNodesNew \/ AddNodesEdge
                          \/ AddNodesReturn \/ VisualizeDone)
        /\ pc = "rendered" =>
              /\ stack = <<>>
              /\ Range(out_nodes) = {nodes[k].id : k \in ReachFrom({entry})}
              /\ Len(out_nodes) = Cardinality(ReachFrom({entry}))

C7_TraversalStep ==
    (pc = "rendering" /\ pc' = "rendering") => TraversalMeasure' > TraversalMeasure

C7_TraversalTerminates == [] C7_TraversalState /\ [][C7_TraversalStep]_vars

(* A finished traversal of a CFG with a loop: the loop header was reached  *)
(* again over the back edge and was not emitted again.                     *)
C7_Witness ==
    /\ pc = "rendered"
    /\ \E o \in AllOcc :
          /\ o.stmt.type \in {"While", "For"}
          /\ o.node \in ReachFrom(Succ(o.node))
          /\ \E i \in 1..Len(out_edges) :
                /\ out_edges[i].dst = nodes[o.node].id
                /\ out_edges[i].src # nodes[entry].id
                /\ \E j \in 1..Len(out_nodes) :
                      out_nodes[j] = nodes[o.node].id
    /\ Len(out_nodes) = Len(nodes)

-----------------------------------------------------------------------------
(* C6: under any interleaving of two _build_cfg_from_function calls, no    *)
(* two distinct nodes of the graph a call returns carry the same id.       *)
C6_UniqueIdsConcurrent ==
    \A t \in Callers :
        calls[t].pc = "done" =>
            \A i, j \in 1..Len(ConcGraph(t)) :
                ConcGraph(t)[i].id = ConcGraph(t)[j].id => i = j

(* Repeated, not overlapping, calls keep the ids of a graph distinct: the  *)
(* sequential caller's graph has the ids 0 .. number of nodes - 1.         *)
C6_UniqueIdsSequential ==
    pc = "built" =>
        /\ \A k \in 1..Len(nodes) : nodes[k].id = k - 1
        /\ id_counter = Len(nodes)

-----------------------------------------------------------------------------
(* The bindings of a function in source order.                             *)

(* The names an expression reads: its Name nodes in Load context.          *)
RECURSIVE Reads(_)
Reads(e) ==
    CASE e.type = "Name" -> IF e.ctx = "Load" THEN {e.id} ELSE {}
      [] e.type \in {"BinOp", "Compare"} -> Reads(e.left) \cup Reads(e.right)
      [] e.type = "Call" ->
            Reads(e.func) \cup UNION {Reads(e.args[k]) : k \in 1..Len(e.args)}
      [] e.type = "Tuple" -> UNION {Reads(e.elts[k]) : k \in 1..Len(e.elts)}
      [] OTHER -> {}

Binding(name, type, dependencies, line) ==
    [name |-> name, type |-> type, dependencies |-> dependencies, line |-> line]

(* The names a target of an assignment binds: a name, or the names of a    *)
(* tuple of names.                                                         *)
Bound(target) ==
    IF target.type = "Name" THEN <<target.id>>
    ELSE [k \in 1..Len(target.elts) |-> target.elts[k].id]

RECURSIVE Bindings(_)
RECURSIVE TargetBindings(_, _)
TargetBindings(targets, s) ==
    IF targets = <<>> THEN <<>>
    ELSE [k \in 1..Len(Bound(Head(targets))) |->
            Binding(Bound(Head(targets))[k], "variable", Reads(s.value), s.lineno)]
         \o TargetBindings(Tail(targets), s)
StmtBindings(s) ==
    CASE s.type = "Assign" -> TargetBindings(s.targets, s)
      [] s.type = "AugAssign" ->
            <<Binding(s.target.id, "variable", Reads(s.value) \cup {s.target.id},
                      s.lineno)>>
      [] s.type = "For" ->
            <<Binding(s.target.id, "loop_var", Reads(s.iter), s.lineno)>>
                \o Bindings(s.body)
      [] s.type = "With" ->
            [k \in 1..Len(s.items) |->
                Binding(s.items[k].optional_vars.id, "context_var",
                        Reads(s.items[k].context_expr), s.lineno)]
                \o Bindings(s.body)
      [] s.type = "If" -> Bindings(s.body) \o Bindings(s.orelse)
      [] s.type = "While" -> Bindings(s.body)
      [] s.type = "Return" ->
            IF s.value = NoValue THEN <<>>
            ELSE <<Binding("__return__", "return", Reads(s.value), s.lineno)>>
      [] OTHER -> <<>>
Bindings(stmts) ==
    IF stmts = <<>> THEN <<>> ELSE StmtBindings(Head(stmts)) \o Bindings(Tail(stmts))

(* The bindings of the parameters and of the statements visited so far.    *)
ParameterBindings ==
    [k \in 1..Len(dfunc.args) |-> Binding(dfunc.args[k], "parameter", {}, dfunc.lineno)]
VisitedStatements == SubSeq(dfunc.body, 1, stmt_i - 1)
BindingsSoFar == ParameterBindings \o Bindings(VisitedStatements)

(* The last binding of a name.                                             *)
LastBinding(bs, name) ==
    bs[CHOOSE k \in 1..Len(bs) :
          /\ bs[k].name = name
          /\ \A j \in (k + 1)..Len(bs) : bs[j].name # name]

RecordOf(b) == [type |-> b.type, dependencies |-> b.dependencies, line |-> b.line]

(* C8: last write wins.  During and after the analysis the mapping holds   *)
(* one record for each name bound so far, and it is the record of the last *)
(* binding of the name in source order: for a plain assignment its kind is *)
(* `variable` and its dependency set is the set of names the right-hand    *)
(* side of that assignment reads, whatever earlier assignments read.       *)
C8_LastWriteWins ==
    pc \in {"visiting", "analyzed"} =>
        /\ DOMAIN analyzer.variables = {BindingsSoFar[k].name : k \in 1..Len(BindingsSoFar)}
        /\ \A name \in DOMAIN analyzer.variables :
              analyzer.variables[name] = RecordOf(LastBinding(BindingsSoFar, name))

(* x = a; x = b + 1 was analysed: the record of x depends on b alone.      *)
C8_Witness ==
    /\ pc = "analyzed"
    /\ Len(dfunc.body) = 2
    /\ dfunc.body[1].type = "Assign" /\ dfunc.body[2].type = "Assign"
    /\ unparse(dfunc.body[1]) = "x = a"
    /\ unparse(dfunc.body[2]) = "x = b + 1"
    /\ analyzer.variables["x"].dependencies = {"b"}

-----------------------------------------------------------------------------
(* C9: once an augmented assignment x op= e to a name has been visited,    *)
(* as a statement of the function body or as the last statement of a loop  *)
(* body, the record of x has kind `variable` and its dependency set is the *)
(* names e reads together with x.                                          *)
LastVisited == dfunc.body[stmt_i - 1]

AugAssignRecord(s) ==
    analyzer.variables[s.target.id] =
        [type |-> "variable", dependencies |-> Reads(s.value) \cup {s.target.id},
         line |-> s.lineno]

C9_AugAssignDependencies ==
    (pc = "visiting" /\ stmt_i > 1) =>
        /\ LastVisited.type = "AugAssign" => AugAssignRecord(LastVisited)
        /\ (LastVisited.type \in {"For", "While"}
                /\ LastVisited.body[Len(LastVisited.body)].type = "AugAssign") =>
              AugAssignRecord(LastVisited.body[Len(LastVisited.body)])

(* x += y was just visited in a function in which x was assigned before:   *)
(* the record of x depends on x and y.                                     *)
C9_Witness ==
    /\ pc = "visiting" /\ stmt_i = 3
    /\ dfunc.body[1].type = "Assign"
    /\ unparse(dfunc.body[1]) = "x = a"
    /\ LastVisited.type = "AugAssign"
    /\ unparse(LastVisited) = "x += y"
    /\ analyzer.variables["x"] =
          [type |-> "variable", dependencies |-> {"x", "y"}, line |-> 3]

-----------------------------------------------------------------------------
(* The records of Scenario 2 without their lines.                          *)
KindsAndDependencies ==
    [name \in DOMAIN analyzer.variables |->
        [type |-> analyzer.variables[name].type,
         dependencies |-> analyzer.variables[name].dependencies]]

Scenario2Records(loop_var_dependencies) ==
    [name \in {"n", "i", "s", "__return__"} |->
        CASE name = "n" -> [type |-> "parameter", dependencies |-> {}]
          [] name = "i" -> [type |-> "loop_var", dependencies |-> loop_var_dependencies]
          [] name = "s" -> [type |-> "variable", dependencies |-> {"s", "i"}]
          [] name = "__return__" -> [type |-> "return", dependencies |-> {"s"}]]

(* C10 as stated: Scenario 2 gives n (parameter, {}), i (loop_var, {n}),   *)
(* s ({s, i}) and the return key ({s}), and no other record.               *)
C10_Original ==
    (pc = "analyzed" /\ dfunc = Parsed(Scenario2)) =>
        KindsAndDependencies = Scenario2Records({"n"})

(* C10, amended: Scenario 2 gives n (parameter, {}), i (loop_var,          *)
(* {range, n}: every name the iterated expression range(n) reads, the      *)
(* called function's name included), s (variable, {s, i}) and the return   *)
(* key (return, {s}), and no other record; before the loop the record of s *)
(* had the dependency set {}.                                              *)
C10_Scenario2 ==
    dfunc = Parsed(Scenario2) =>
        /\ pc = "analyzed" => KindsAndDependencies = Scenario2Records({"range", "n"})
        /\ (pc = "visiting" /\ stmt_i = 2) =>
              analyzer.variables["s"] =
                  [type |-> "variable", dependencies |-> {}, line |-> 2]

(* Scenario 2 was analysed.                                                *)
C10_Witness ==
    /\ pc = "analyzed"
    /\ dfunc = Parsed(Scenario2)
    /\ analyzer.variables["i"].dependencies = {"range", "n"}
    /\ analyzer.variables["s"].dependencies = {"s", "i"}

-----------------------------------------------------------------------------
(* generate_dfg on a function whose body holds a nested function           *)
(* definition, of the same name or of another one, between at most         *)
(* MaxLen - 1 statements before it and after it.                           *)

NestedDefs ==
    {FunctionDef(n, <<"q">>, <<Assign(<<Store("z")>>, Load("q")), Return(Load("z"))>>) :
        n \in {"f", "h"}}
        \cup {FunctionDef("f", <<>>, <<Assign(<<Store("x")>>, Load("y"))>>)}

NestedAround ==
    {Assign(<<Store("x")>>, Load("a")),
     Assign(<<Store("x")>>, BinOp(Load("b"), "+", Constant("1"))),
     AugAssign(Store("x"), "+", Load("b")),
     Return(Load("x"))}

NestedFunctions ==
    {Parsed(FunctionDef("f", <<"a", "b">>, pre \o <<d>> \o post)) :
        pre \in SeqsUpTo(NestedAround, MaxLen - 1),
        post \in SeqsUpTo(NestedAround, MaxLen - 1),
        d \in NestedDefs}

InitNested ==
    /\ dfunc \in NestedFunctions
    /\ analyzer = DataFlowAnalyzer(dfunc.name)
    /\ stmt_i = 0
    /\ pc = "start"
    /\ func = NoFunction
    /\ nodes = <<>>
    /\ id_counter = 0
    /\ entry = None
    /\ visited = {}
    /\ stack = <<>>
    /\ out_nodes = <<>>
    /\ out_edges = <<>>
    /\ calls = <<>>
    /\ RenderIdle /\ GenIdle /\ CleanupIdle

SpecNested == InitNested /\ [][NextDFG]_vars

-----------------------------------------------------------------------------
(* The body with every nested function definition replaced by a statement  *)
(* that binds and reads nothing, on the same line.                         *)
Opaque(body) ==
    [k \in 1..Len(body) |->
        IF body[k].type = "FunctionDef"
        THEN [type |-> "Pass", lineno |-> body[k].lineno]
        ELSE body[k]]

(* The mapping after the statements before stmt_i when the nested          *)
(* definitions are opaque.                                                 *)
OpaqueMapping ==
    visit_all(enter_FunctionDef(DataFlowAnalyzer(dfunc.name), dfunc),
              SubSeq(Opaque(dfunc.body), 1, stmt_i - 1)).variables

(* C11: a function definition nested in the target function, of the same   *)
(* name or not, leaves the mapping as it would be were the definition an   *)
(* opaque statement: nothing of the nested function is recorded, and the   *)
(* statements that follow it are recorded as usual.                        *)
C11_NestedDefOpaque ==
    pc \in {"visiting", "analyzed"} => analyzer.variables = OpaqueMapping

(* A nested definition of another name is skipped whole.                   *)
C11_OtherNameOpaque ==
    (/\ pc \in {"visiting", "analyzed"}
     /\ \A k \in 1..Len(dfunc.body) :
           dfunc.body[k].type = "FunctionDef" => dfunc.body[k].name # dfunc.name)
        => analyzer.variables = OpaqueMapping

-----------------------------------------------------------------------------
(* Rendering.  _visualize_cfg and _create_visualization name the artifact  *)
(* after the function and datetime.now().strftime("%Y%m%d_%H%M%S").  The   *)
(* clock counts ticks, TicksPerSecond of them to the second; at most       *)
(* MaxRenders render calls are made, up to the tick MaxClock.              *)

MaxRenders == 2
MaxClock == 3
TicksPerSecond == 2

(* datetime.now().strftime("%Y%m%d_%H%M%S"): the time in whole seconds.    *)
strftime(now) == now \div TicksPerSecond

(* f"{os.path.join(self.output_dir, f'{function_name}_{timestamp}')}.png"  *)
png_path(output_dir, function_name, now) ==
    [dir |-> output_dir, stem |-> function_name, timestamp |-> strftime(now),
     ext |-> ".png"]

CfgOutputDir == "generated_artifacts/cfg"
DfgOutputDir == "dfg_outputs"

(* A module that holds one function.                                       *)
Module(body) == [type |-> "Module", body |-> body]

RenderFunctions ==
    {Scenario1,
     FunctionDef("g", <<"n">>, <<While(CfgTest, <<CfgAssign>>), CfgReturn>>)}

InitRender ==
    /\ func \in RenderFunctions
    /\ dfunc = Parsed(Scenario2)
    /\ analyzer = NoAnalyzer
    /\ stmt_i = 0
    /\ nodes = <<>>
    /\ id_counter = 0
    /\ entry = None
    /\ pc = "start"
    /\ visited = {}
    /\ stack = <<>>
    /\ out_nodes = <<>>
    /\ out_edges = <<>>
    /\ calls = <<>>
    /\ RenderIdle /\ GenIdle /\ CleanupIdle

(* Time passes.                                                            *)
Tick ==
    /\ clock < MaxClock
    /\ clock' = clock + 1
    /\ UNCHANGED <<cfg_vars, pc, calls, dfg_vars, renders, gen_vars, cleanup_vars>>

(* _visualize_cfg after the traversal: the file is named and rendered and  *)
(* its path returned, or graph.render raises and None is returned.         *)
RenderCfg ==
    /\ pc = "rendering" /\ stack = <<>>
    /\ Len(renders) < MaxRenders
    /\ \E ok \in BOOLEAN :
          renders' = Append(renders,
                            [generator |-> "cfg", function_name |-> func.name,
                             at |-> clock,
                             path |-> IF ok
                                      THEN png_path(CfgOutputDir, func.name, clock)
                                      ELSE NoValue])
    /\ pc' = "rendered"
    /\ UNCHANGED <<cfg_vars, calls, dfg_vars, clock, gen_vars, cleanup_vars>>

(* _create_visualization(variables, function_name)                         *)
create_visualization(variables, function_name, now) ==
    png_path(DfgOutputDir, function_name, now)

(* The ast.FunctionDef nodes of the code, in the order of ast.walk.        *)
Defs(code) == [k \in 1..Len(code.functions) |-> code.functions[k].def]

(* generate_dfg(code, function_name) at the time `now`: the analyzer it    *)
(* made and the value it returns.  `fate` tells what the environment does  *)
(* to this call: "construction" when the analysis raises (a                *)
(* RecursionError on deep code), "render" when dot.render raises, "none"   *)
(* otherwise.  Every exception ends in `return None`.                      *)
generate_dfg(code, function_name, fate, now) ==
    IF ~code.parses
    THEN [analyzer |-> NoAnalyzer, variables |-> NoValue, path |-> NoValue]
    ELSE IF fate = "construction"
    THEN [analyzer |-> DataFlowAnalyzer(function_name), variables |-> NoValue,
          path |-> NoValue]
    ELSE LET a == visit(DataFlowAnalyzer(function_name), Module(Defs(code)))
         IN [analyzer |-> a,
             variables |-> a.variables,
             path |-> IF a.variables = <<>> \/ fate = "render" THEN NoValue
                      ELSE create_visualization(a.variables, function_name, now)]

(* generate_dfg(code, function_name) for the module that holds dfunc; the  *)
(* caller is not in the middle of generate_cfg.                            *)
GenerateDfg ==
    /\ pc \in {"start", "built", "rendered"}
    /\ Len(renders) < MaxRenders
    /\ \E fate \in {"none", "render"} :
          LET code == [parses |-> TRUE,
                       functions |-> <<[def |-> dfunc, fate |-> fate]>>]
              r == generate_dfg(code, dfunc.name, fate, clock)
          IN /\ analyzer' = r.analyzer
             /\ renders' = Append(renders,
                                  [generator |-> "dfg", function_name |-> dfunc.name,
                                   at |-> clock, path |-> r.path])
    /\ UNCHANGED <<cfg_vars, pc, calls, dfunc, stmt_i, clock, gen_vars, cleanup_vars>>

NextRender ==
    \/ BuildCfgFromFunction
    \/ VisualizeCfg
    \/ AddNodesVisited
    \/ AddNodesNew
    \/ AddNodesEdge
    \/ AddNodesReturn
    \/ RenderCfg
    \/ GenerateDfg
    \/ Tick

SpecRender == InitRender /\ [][NextRender]_vars

-----------------------------------------------------------------------------
(* C12: any two render calls of the same generator for the same function   *)
(* that return a path return two distinct paths.                           *)
C12_DistinctPaths ==
    \A i, j \in 1..Len(renders) :
        (/\ i # j
         /\ renders[i].generator = renders[j].generator
         /\ renders[i].function_name = renders[j].function_name
         /\ renders[i].path # NoValue /\ renders[j].path # NoValue)
            => renders[i].path # renders[j].path

(* Two render calls for the same function that are made in different       *)
(* seconds return distinct paths.                                          *)
C12_DistinctSeconds ==
    \A i, j \in 1..Len(renders) :
        (/\ i # j
         /\ renders[i].generator = renders[j].generator
         /\ renders[i].function_name = renders[j].function_name
         /\ renders[i].path # NoValue /\ renders[j].path # NoValue
         /\ strftime(renders[i].at) # strftime(renders[j].at))
            => renders[i].path # renders[j].path

-----------------------------------------------------------------------------
(* The generator methods on a module: generate_cfg(code),                  *)
(* generate_dfg_for_all_functions(code) and generate_dfg(code, name).      *)
(* The code either fails to parse or holds at most MaxLen functions; each  *)
(* function comes with its fate: "construction" when building its graph    *)
(* raises (a RecursionError on deeply nested code), "render" when the      *)
(* drawing backend raises, "none" when nothing goes wrong.                 *)

Fates == {"none", "construction", "render"}

GenDefs ==
    {Parsed(FunctionDef("f", <<"a">>, <<Assign(<<Store("x")>>, Load("a")),
                                         Return(Load("x"))>>)),
     Parsed(FunctionDef("f", <<"b">>,
                        <<Assign(<<Store("y")>>,
                                 BinOp(Load("b"), "+", Constant("1")))>>)),
     Parsed(Scenario2),
     Parsed(FunctionDef("h", <<>>, <<ExprStmt(Call(Load("print"), <<Load("x")>>))>>))}

GenFunctions == {[def |-> d, fate |-> x] : d \in GenDefs, x \in Fates}

Sources ==
    {[parses |-> FALSE, functions |-> <<>>]}
        \cup {[parses |-> TRUE, functions |-> fs_] :
                fs_ \in SeqsUpTo(GenFunctions, MaxLen)}

Generators == {"generate_cfg", "generate_dfg_for_all_functions", "generate_dfg"}

InitGen ==
    /\ generator \in Generators
    /\ source \in Sources
    /\ fn_i = 0
    /\ result = NoResult
    /\ outcomes = <<>>
    /\ returned = NoValue
    /\ pc = "start"
    /\ func = NoFunction
    /\ nodes = <<>>
    /\ id_counter = 0
    /\ entry = None
    /\ visited = {}
    /\ stack = <<>>
    /\ out_nodes = <<>>
    /\ out_edges = <<>>
    /\ calls = <<>>
    /\ dfunc = NoFunction
    /\ analyzer = NoAnalyzer
    /\ stmt_i = 0
    /\ RenderIdle /\ CleanupIdle

gen_frame == <<visited, stack, out_nodes, out_edges, calls, dfunc, stmt_i, generator,
               source, render_vars, cleanup_vars>>

(* result[function_name] = path                                            *)
SetResult(r, function_name, path) ==
    [n \in DOMAIN r \cup {function_name} |-> IF n = function_name THEN path ELSE r[n]]

(* What a method hands to its caller: the value of its return statement;   *)
(* raised tells whether an exception left the method instead.              *)
Returns(value) == [raised |-> FALSE, value |-> value]

(* tree = ast.parse(code) raises in a batch method: the handler logs the   *)
(* error and returns result.                                               *)
GenParseFails ==
    /\ pc = "start" /\ generator # "generate_dfg"
    /\ ~source.parses
    /\ returned' = Returns(result)
    /\ pc' = "returned"
    /\ UNCHANGED <<func, nodes, id_counter, entry, analyzer, fn_i, result, outcomes,
                   gen_frame>>

(* tree = ast.parse(code) succeeds: the loop over the functions starts.    *)
GenParse ==
    /\ pc = "start" /\ generator # "generate_dfg"
    /\ source.parses
    /\ fn_i' = 1
    /\ pc' = "loop"
    /\ UNCHANGED <<func, nodes, id_counter, entry, analyzer, result, outcomes, returned,
                   gen_frame>>

(* generate_cfg, one function of the loop: _build_cfg_from_function raises *)
(* and the handler around the loop returns result.                         *)
GenCfgRaises ==
    /\ generator = "generate_cfg" /\ pc = "loop"
    /\ fn_i <= Len(source.functions)
    /\ source.functions[fn_i].fate = "construction"
    /\ id_counter' \in 0..MaxLen
    /\ outcomes' = Append(outcomes, [function_name |-> source.functions[fn_i].def.name,
                                     variables |-> NoValue, path |-> NoValue])
    /\ returned' = Returns(result)
    /\ pc' = "returned"
    /\ UNCHANGED <<func, nodes, entry, analyzer, fn_i, result, gen_frame>>

(* generate_cfg, one function of the loop: the graph is built and handed   *)
(* to _visualize_cfg, which returns the path, or None when render raises.  *)
GenCfgFunction ==
    /\ generator = "generate_cfg" /\ pc = "loop"
    /\ fn_i <= Len(source.functions)
    /\ source.functions[fn_i].fate # "construction"
    /\ LET node == source.functions[fn_i].def
           r == build_cfg_from_function(id_counter, node)
           cfg_path == IF source.functions[fn_i].fate = "render" THEN NoValue
                       ELSE png_path(CfgOutputDir, node.name, clock)
       IN /\ func' = node
          /\ nodes' = r.h.nodes
          /\ id_counter' = r.h.counter
          /\ entry' = r.node
          /\ result' = IF cfg_path # NoValue THEN SetResult(result, node.name, cfg_path)
                       ELSE result
          /\ outcomes' = Append(outcomes, [function_name |-> node.name,
                                           variables |-> NoValue, path |-> cfg_path])
    /\ fn_i' = fn_i + 1
    /\ UNCHANGED <<analyzer, returned, pc, gen_frame>>

(* generate_dfg_for_all_functions, one function of the loop:               *)
(* dfg_path = self.generate_dfg(code, func_name)                           *)
GenDfgFunction ==
    /\ generator = "generate_dfg_for_all_functions" /\ pc = "loop"
    /\ fn_i <= Len(source.functions)
    /\ LET func_name == source.functions[fn_i].def.name
           r == generate_dfg(source, func_name, source.functions[fn_i].fate, clock)
       IN /\ analyzer' = r.analyzer
          /\ result' = IF r.path # NoValue THEN SetResult(result, func_name, r.path)
                       ELSE result
          /\ outcomes' = Append(outcomes, [function_name |-> func_name,
                                           variables |-> r.variables, path |-> r.path])
    /\ fn_i' = fn_i + 1
    /\ UNCHANGED <<func, nodes, id_counter, entry, returned, pc, gen_frame>>

(* The loop of a batch method is over: return result.                      *)
GenReturn ==
    /\ generator # "generate_dfg" /\ pc = "loop"
    /\ fn_i > Len(source.functions)
    /\ returned' = Returns(result)
    /\ pc' = "returned"
    /\ UNCHANGED <<func, nodes, id_counter, entry, analyzer, fn_i, result, outcomes,
                   gen_frame>>

(* generate_dfg(code, function_name) called for one function of the code,  *)
(* or for any name when the code does not parse.                           *)
GenDfgSingle ==
    /\ generator = "generate_dfg" /\ pc = "start"
    /\ \E k \in 1..(IF source.parses THEN Len(source.functions) ELSE 1) :
          LET function_name == IF source.parses THEN source.functions[k].def.name
                               ELSE "f"
              fate == IF source.parses THEN source.functions[k].fate ELSE "none"
              r == generate_dfg(source, function_name, fate, clock)
          IN /\ analyzer' = r.analyzer
             /\ fn_i' = k
             /\ outcomes' = <<[function_name |-> function_name,
                               variables |-> r.variables, path |-> r.path]>>
             /\ returned' = Returns(r.path)
    /\ pc' = "returned"
    /\ UNCHANGED <<func, nodes, id_counter, entry, result, gen_frame>>

NextGen ==
    \/ GenParseFails
    \/ GenParse
    \/ GenCfgRaises
    \/ GenCfgFunction
    \/ GenDfgFunction
    \/ GenReturn
    \/ GenDfgSingle

SpecGen == InitGen /\ [][NextGen]_vars

(* LLMAgent._execute_function for "generate_dfg", given what generate_dfg  *)
(* returned.                                                               *)
execute_generate_dfg(func_name, dfg_path) ==
    IF dfg_path # NoValue
    THEN [success |-> TRUE, function |-> func_name, dfg_path |-> dfg_path]
    ELSE [success |-> FALSE, error |-> "Failed to generate DFG for function"]

-----------------------------------------------------------------------------
Batch == generator \in {"generate_cfg", "generate_dfg_for_all_functions"}

BatchReturned == Batch /\ pc = "returned" /\ source.parses

(* The mapping of a fresh analyzer for the k-th function's name on the     *)
(* whole code, and on code that holds the k-th function alone.             *)
MappingInModule(k) ==
    visit(DataFlowAnalyzer(source.functions[k].def.name),
          Module(Defs(source))).variables
MappingAlone(k) ==
    visit(DataFlowAnalyzer(source.functions[k].def.name),
          Module(<<source.functions[k].def>>)).variables

(* The processing of the k-th function succeeds by itself: nothing raises  *)
(* for it and, for a DFG, it has variables to draw.                        *)
OwnSuccess(k) ==
    /\ source.functions[k].fate = "none"
    /\ generator = "generate_dfg_for_all_functions" => MappingAlone(k) # <<>>

(* C13: in a batch, every function whose own processing succeeds is in     *)
(* the returned result, whatever happened to the other functions.          *)
C13_SiblingsProcessed ==
    BatchReturned =>
        \A k \in 1..Len(source.functions) :
            OwnSuccess(k) => source.functions[k].def.name \in DOMAIN returned.value

(* A failure of the drawing backend for one function, in either batch      *)
(* method, and any failure inside generate_dfg, leaves the other functions *)
(* processed: only a raise of the CFG construction ends the batch early.   *)
C13_OnlyCfgConstructionAborts ==
    (/\ BatchReturned
     /\ generator = "generate_cfg" =>
           \A k \in 1..Len(source.functions) :
               source.functions[k].fate # "construction")
        => \A k \in 1..Len(source.functions) :
               OwnSuccess(k) => source.functions[k].def.name \in DOMAIN returned.value

(* What a returned dict tells about a function: a path when it succeeded,  *)
(* None when it failed.                                                    *)
ReportedSucceeded(value) == {n \in DOMAIN value : value[n] # NoValue}
ReportedFailed(value) == {n \in DOMAIN value : value[n] = NoValue}

(* C14: the result of a batch describes every function of the module as    *)
(* succeeded or as failed.                                                 *)
C14_EveryFunctionDescribed ==
    BatchReturned =>
        \A k \in 1..Len(source.functions) :
            source.functions[k].def.name
                \in ReportedSucceeded(returned.value) \cup ReportedFailed(returned.value)

(* The result holds the functions whose graph was produced and no other.   *)
C14_OnlySuccessesReported ==
    BatchReturned =>
        /\ ReportedFailed(returned.value) = {}
        /\ ReportedSucceeded(returned.value) =
              {outcomes[k].function_name : k \in {j \in 1..Len(outcomes) :
                                                     outcomes[j].path # NoValue}}

(* C15: when the source fails to parse the caller receives the failure as  *)
(* an error and no construction or rendering was attempted.                *)
C15_ParseFailurePropagated ==
    (pc = "returned" /\ generator \in Generators /\ ~source.parses) =>
        /\ returned.raised
        /\ nodes = <<>>
        /\ \A k \in 1..Len(outcomes) :
              outcomes[k].variables = NoValue /\ outcomes[k].path = NoValue

(* When the source fails to parse nothing is built or rendered, and the    *)
(* method returns its empty value: {} or None.                             *)
C15_NothingAttempted ==
    (pc = "returned" /\ generator \in Generators /\ ~source.parses) =>
        /\ ~returned.raised
        /\ returned.value = IF generator = "generate_dfg" THEN NoValue ELSE NoResult
        /\ nodes = <<>>
        /\ \A k \in 1..Len(outcomes) :
              outcomes[k].variables = NoValue /\ outcomes[k].path = NoValue

(* generate_dfg returned for a function that has an empty mapping.         *)
EmptyMappingReturned ==
    /\ generator = "generate_dfg" /\ pc = "returned" /\ source.parses
    /\ source.functions[fn_i].fate = "none"
    /\ outcomes[1].variables = <<>>

(* C16: an empty mapping is reported as "no graph produced": the caller    *)
(* gets no error for it and what it gets differs from what a failed        *)
(* generation gives.                                                       *)
C16_EmptyResultNotAnError ==
    EmptyMappingReturned =>
        /\ "error" \notin DOMAIN execute_generate_dfg(outcomes[1].function_name,
                                                       returned.value)
        /\ \A fate \in {"construction", "render"} :
              returned.value # generate_dfg(source, outcomes[1].function_name,
                                            fate, clock).path

(* C18: in generate_dfg_for_all_functions the mapping obtained for a        *)
(* function equals the mapping obtained by analysing that function alone.  *)
C18_FreshStatePerFunction ==
    generator = "generate_dfg_for_all_functions" =>
        \A k \in 1..Len(outcomes) :
            outcomes[k].variables # NoValue => outcomes[k].variables = MappingAlone(k)

(* It does so when no other function of the module has the same name, and  *)
(* it never depends on the functions analysed before it.                   *)
C18_FreshWhenNamesDiffer ==
    generator = "generate_dfg_for_all_functions" =>
        \A k \in 1..Len(outcomes) :
            outcomes[k].variables # NoValue =>
                /\ outcomes[k].variables = MappingInModule(k)
                /\ (\A j \in 1..Len(source.functions) :
                       j # k => source.functions[j].def.name
                                    # source.functions[k].def.name)
                      => outcomes[k].variables = MappingAlone(k)

-----------------------------------------------------------------------------
Modeled == {"If", "While", "For", "Return", "Break", "Continue"}

(* C17: a statement of a kind outside if, while, for, return, break and    *)
(* continue gets exactly one node, of kind `statement`, labelled with its  *)
(* (shortened) source text and linked to the continuation in force, and    *)
(* the statement before it is built with that node as its continuation.    *)
C17_UnmodeledStatementOpaque ==
    pc = "built" =>
        /\ Len(nodes) = 1 + BlockCount(func.body)
        /\ \A o \in AllOcc :
              o.stmt.type \notin Modeled =>
                  /\ nodes[o.node].node_type = "statement"
                  /\ nodes[o.node].label = Shorten(unparse(o.stmt))
                  /\ nodes[o.node].successors =
                        (IF o.next # None THEN <<o.next>> ELSE <<>>)
                  /\ nodes[o.node].edge_labels = NoLabels
                  /\ \A p \in AllOcc :
                        (p.next = o.node /\ p.stmt.type \notin {"If", "While", "For", "Return"})
                            => nodes[p.node].successors = <<o.node>>

(* A built loop whose body is a with statement followed by pass: the with  *)
(* statement, return in its body included, is one node with a shortened    *)
(* label that leads to the node of pass, which leads to the loop header.   *)
C17_Witness ==
    /\ pc = "built"
    /\ \E o \in AllOcc, p \in AllOcc :
          /\ o.stmt = CfgWith /\ p.stmt = Pass /\ o.next = p.node
          /\ p.next # None /\ nodes[p.next].node_type = "condition"
          /\ Len(nodes[o.node].label) = 50
          /\ nodes[o.node].successors = <<p.node>>
          /\ nodes[p.node].successors = <<p.next>>

(* C20: a break or continue statement gets a node of kind `control` whose  *)
(* only successor is the continuation of its own block; when it is the     *)
(* last statement of a loop body that is the node of the loop header.      *)
C20_ControlToContinuation ==
    pc = "built" =>
        /\ \A o \in AllOcc :
              o.stmt.type \in {"Break", "Continue"} =>
                  /\ nodes[o.node].node_type = "control"
                  /\ nodes[o.node].label = unparse(o.stmt)
                  /\ nodes[o.node].successors =
                        (IF o.next # None THEN <<o.next>> ELSE <<>>)
                  /\ nodes[o.node].edge_labels = NoLabels
        /\ \A o \in AllOcc :
              (/\ o.stmt.type \in {"While", "For"}
               /\ o.stmt.body[Len(o.stmt.body)].type \in {"Break", "Continue"})
                  => LET last == o.node + 1
                     IN /\ nodes[last].node_type = "control"
                        /\ nodes[last].successors = <<o.node>>

(* A built while loop that is followed by a statement and whose body ends  *)
(* in break: the break node leads back to the condition node, not to the   *)
(* statement after the loop.                                               *)
C20_Witness ==
    /\ pc = "built"
    /\ \E o \in AllOcc :
          /\ o.stmt.type = "While" /\ o.next # None
          /\ Len(o.stmt.body) = MaxLen
          /\ o.stmt.body[Len(o.stmt.body)].type = "Break"
          /\ nodes[o.node + 1].label = "break"
          /\ nodes[o.node + 1].successors = <<o.node>>
          /\ o.next \notin Succ(o.node + 1)

-----------------------------------------------------------------------------
(* The interpreter's recursion limit.  label = ast.unparse(stmt) visits    *)
(* the statement recursively, one level of calls for each level of nesting *)
(* of the node, and the interpreter raises RecursionError when the nesting *)
(* needs more levels than the stack has left.  RecursionLimit is the       *)
(* number of levels left to ast.unparse.                                   *)

RecursionLimit == 3

Max(a, b) == IF a >= b THEN a ELSE b

(* The levels of recursive calls ast.unparse makes for node n.             *)
RECURSIVE unparse_depth(_)
RECURSIVE unparse_depth_all(_)
unparse_depth_all(seq) ==
    IF seq = <<>> THEN 0
    ELSE Max(unparse_depth(seq[1]), unparse_depth_all(Tail(seq)))

unparse_depth(n) ==
    CASE n.type \in {"Name", "Constant", "Pass", "Break", "Continue"} -> 1
      [] n.type \in {"BinOp", "Compare"} ->
            1 + Max(unparse_depth(n.left), unparse_depth(n.right))
      [] n.type = "Call" -> 1 + Max(unparse_depth(n.func), unparse_depth_all(n.args))
      [] n.type = "Assign" ->
            1 + Max(unparse_depth_all(n.targets), unparse_depth(n.value))
      [] n.type = "Expr" -> 1 + unparse_depth(n.value)

(* ast.unparse(stmt) raises RecursionError.                                *)
unparse_raises(stmt) == unparse_depth(stmt) > RecursionLimit

(* a + a + ... + a with n operands: a BinOp nested n - 1 times on the left. *)
RECURSIVE Sum(_)
Sum(n) == IF n = 1 THEN Load("a") ELSE BinOp(Sum(n - 1), "+", Load("a"))

(* Bodies of statements outside the modeled kinds, and break, whose        *)
(* expressions nest up to one level beyond what the limit allows.          *)
DeepStatements ==
    {Assign(<<Store("x")>>, Sum(n)) : n \in 1..(RecursionLimit + 1)}
        \cup {ExprStmt(Sum(n)) : n \in 1..(RecursionLimit + 1)}
        \cup {Pass, Break}

DeepFunctions ==
    {FunctionDef("f", <<"a">>, b) : b \in SeqsUpTo(DeepStatements, MaxLen) \ {<<>>}}

InitDeep ==
    /\ func \in DeepFunctions
    /\ nodes = <<>>
    /\ id_counter = 0
    /\ entry = None
    /\ pc = "start"
    /\ visited = {}
    /\ stack = <<>>
    /\ out_nodes = <<>>
    /\ out_edges = <<>>
    /\ calls = <<>>
    /\ dfunc = NoFunction
    /\ analyzer = NoAnalyzer
    /\ stmt_i = 0
    /\ RenderIdle /\ GenIdle /\ CleanupIdle

(* The statement at which `for stmt in reversed(statements)` raises: the   *)
(* last one whose text cannot be unparsed, 0 when there is none.           *)
RaisingStatement(statements) ==
    IF \E i \in 1..Len(statements) : unparse_raises(statements[i])
    THEN CHOOSE i \in 1..Len(statements) :
            /\ unparse_raises(statements[i])
            /\ \A j \in (i + 1)..Len(statements) : ~unparse_raises(statements[j])
    ELSE 0

deep_frame == <<func, visited, stack, out_nodes, out_edges, calls, ext_vars, dfg_vars>>

(* _build_cfg_from_function returns: no ast.unparse call raised.           *)
BuildCfgDeep ==
    /\ pc = "start"
    /\ RaisingStatement(func.body) = 0
    /\ LET r == build_cfg_from_function(id_counter, func)
       IN /\ nodes' = r.h.nodes
          /\ id_counter' = r.h.counter
          /\ entry' = r.node
    /\ pc' = "built"
    /\ UNCHANGED deep_frame

(* The heap when the loop reaches statements[i]: the entry node and the    *)
(* nodes of the statements after statements[i].                            *)
heap_before(func_node, i) ==
    build_cfg_from_statements(
        CFGNode([nodes |-> <<>>, counter |-> 0],
                "def " \o func_node.name \o "(" \o Join(func_node.args, ", ") \o ")",
                "entry"),
        SubSeq(func_node.body, i + 1, Len(func_node.body)), None).h

(* _build_cfg_from_statements raises: ast.unparse(stmt) of the else branch *)
(* raises RecursionError, nothing in the method catches it, and the nodes  *)
(* created so far are left behind.                                         *)
BuildCfgDeepRaises ==
    /\ pc = "start"
    /\ RaisingStatement(func.body) # 0
    /\ LET h == heap_before(func, RaisingStatement(func.body))
       IN /\ nodes' = h.nodes
          /\ id_counter' = h.counter
    /\ entry' = None
    /\ pc' = "raised"
    /\ UNCHANGED deep_frame

NextDeep ==
    \/ BuildCfgDeep
    \/ BuildCfgDeepRaises

SpecDeep == InitDeep /\ [][NextDeep]_vars

(* C17: _build_cfg_from_statements never raises on a statement outside the *)
(* modeled kinds: the call returns, and every such statement has exactly   *)
(* one node, of kind `statement`, linked to the continuation in force.     *)
C17_NeverRaises ==
    pc # "start" =>
        /\ pc = "built"
        /\ Len(nodes) = 1 + BlockCount(func.body)
        /\ \A o \in AllOcc :
              o.stmt.type \notin Modeled =>
                  /\ nodes[o.node].node_type = "statement"
                  /\ nodes[o.node].successors =
                        (IF o.next # None THEN <<o.next>> ELSE <<>>)

-----------------------------------------------------------------------------
(* cleanup.py.  A file is its directory and its name; fs is the set of     *)
(* files on disk.                                                          *)

MaxCalls == 2

File(dir, name) == [dir |-> dir, name |-> name]
Path(f) == f.dir \o "/" \o f.name

Files ==
    {File("sessions", "s1.json"), File("sessions", "s2.json"),
     File("sessions", "a.gitkeep"), File("sessions", ".gitkeep"),
     File("generated_artifacts/cfg", "f_1.png")}

(* The patterns of cleanup_sessions and cleanup_artifacts, and one that    *)
(* matches every visible file of sessions/.                                *)
Patterns ==
    {[dir |-> "sessions", suffix |-> ".json"],
     [dir |-> "sessions", suffix |-> ""],
     [dir |-> "generated_artifacts/cfg", suffix |-> ".png"]}

startswith(str, prefix) ==
    Len(str) >= Len(prefix) /\ SubSeq(str, 1, Len(prefix)) = prefix

endswith(str, suffix) ==
    Len(str) >= Len(suffix)
        /\ SubSeq(str, Len(str) - Len(suffix) + 1, Len(str)) = suffix

(* glob.glob(pattern, recursive=True) for the pattern dir/*suffix: the     *)
(* star matches no name that starts with a dot.                            *)
glob(files, pattern) ==
    {f \in files : /\ f.dir = pattern.dir
                   /\ endswith(f.name, pattern.suffix)
                   /\ ~startswith(f.name, ".")}

(* files = [f for f in files if not f.endswith('.gitkeep')]                *)
to_delete(files, pattern) ==
    {f \in glob(files, pattern) : ~endswith(Path(f), ".gitkeep")}

(* delete_files(pattern, description, dry_run) with os.remove raising for  *)
(* the files of failing: what is left on disk and the value returned.      *)
delete_files(files, pattern, dry_run, failing) ==
    LET matched == to_delete(files, pattern)
        removed == IF dry_run THEN {} ELSE matched \ failing
        deleted_count == Cardinality(removed)
    IN [fs |-> files \ removed,
        returned |-> IF matched = {} THEN 0 ELSE deleted_count]

InitCleanup ==
    /\ fs \in SUBSET Files
    /\ deleted = <<>>
    /\ pc = "start"
    /\ func = NoFunction
    /\ nodes = <<>>
    /\ id_counter = 0
    /\ entry = None
    /\ visited = {}
    /\ stack = <<>>
    /\ out_nodes = <<>>
    /\ out_edges = <<>>
    /\ calls = <<>>
    /\ dfunc = NoFunction
    /\ analyzer = NoAnalyzer
    /\ stmt_i = 0
    /\ RenderIdle /\ GenIdle

DeleteFiles ==
    /\ Len(deleted) < MaxCalls
    /\ \E pattern \in Patterns, dry_run \in BOOLEAN :
          \E failing \in SUBSET to_delete(fs, pattern) :
              LET r == delete_files(fs, pattern, dry_run, failing)
              IN /\ (dry_run => failing = {})
                 /\ fs' = r.fs
                 /\ deleted' = Append(deleted,
                                      [pattern |-> pattern, dry_run |-> dry_run,
                                       before |-> fs, after |-> r.fs,
                                       returned |-> r.returned])
    /\ UNCHANGED <<cfg_vars, pc, calls, dfg_vars, render_vars, gen_vars>>

NextCleanup == DeleteFiles

SpecCleanup == InitCleanup /\ [][NextCleanup]_vars

(* C19: delete_files returns the number of files it deleted or, in a dry   *)
(* run, the number of matching files other than .gitkeep files that it     *)
(* would delete; a dry run removes no file.                                *)
C19_ReturnsCount ==
    \A k \in 1..Len(deleted) :
        IF deleted[k].dry_run
        THEN /\ deleted[k].returned =
                    Cardinality(to_delete(deleted[k].before, deleted[k].pattern))
             /\ deleted[k].after = deleted[k].before
        ELSE deleted[k].returned = Cardinality(deleted[k].before \ deleted[k].after)

(* What the code does: a dry run removes nothing and returns 0; a real run *)
(* returns the number of files it removed and keeps every .gitkeep file.   *)
C19_DryRunReturnsZero ==
    \A k \in 1..Len(deleted) :
        /\ deleted[k].dry_run =>
              deleted[k].returned = 0 /\ deleted[k].after = deleted[k].before
        /\ ~deleted[k].dry_run =>
              deleted[k].returned = Cardinality(deleted[k].before \ deleted[k].after)
        /\ \A f \in deleted[k].before \ deleted[k].after :
              ~endswith(Path(f), ".gitkeep")

-----------------------------------------------------------------------------
(* The text a branch of the builder computes for a statement before it     *)
(* creates the node.                                                       *)
SourceText(stmt) ==
    CASE stmt.type = "If" -> "if " \o unparse(stmt.test)
      [] stmt.type = "While" -> "while " \o unparse(stmt.test)
      [] stmt.type = "For" ->
            "for " \o unparse(stmt.target) \o " in " \o unparse(stmt.iter)
      [] OTHER -> unparse(stmt)

(* C21: the label of the node of every statement, of whatever kind, is at  *)
(* most 50 characters long, and ends with "..." when the text of the       *)
(* statement was longer.                                                   *)
C21_LabelsBounded ==
    pc = "built" =>
        \A o \in AllOcc :
            /\ Len(nodes[o.node].label) <= 50
            /\ Len(SourceText(o.stmt)) > 50 => endswith(nodes[o.node].label, "...")

(* What the code does: the labels of all kinds but return are cut to 47    *)
(* characters and "..."; the label of a return node is the whole text.     *)
C21_AllButReturnBounded ==
    pc = "built" =>
        \A o \in AllOcc :
            IF o.stmt.type = "Return"
            THEN nodes[o.node].label = SourceText(o.stmt)
            ELSE /\ Len(nodes[o.node].label) <= 50
                 /\ Len(SourceText(o.stmt)) > 50 =>
                        /\ Len(nodes[o.node].label) = 50
                        /\ endswith(nodes[o.node].label, "...")
                        /\ startswith(SourceText(o.stmt),
                                      SubSeq(nodes[o.node].label, 1, 47))

-----------------------------------------------------------------------------
(* The nodes with an edge to node k.                                       *)
Preds(k) == {j \in 1..Len(nodes) : k \in Succ(j)}

(* C22: the entry node has no predecessor, loop back-edges included, and   *)
(* exactly one successor, the first node of the function body.             *)
C22_EntryNoPredecessorOneSuccessor ==
    pc = "built" =>
        /\ nodes[entry].node_type = "entry"
        /\ Preds(entry) = {}
        /\ nodes[entry].successors = <<FirstOf(func.body, None, 1)>>
        /\ nodes[entry].edge_labels = NoLabels

(* A built function whose body is one loop: the back-edge of the body and  *)
(* the edge of the entry both lead to the loop header.                     *)
C22_Witness ==
    /\ pc = "built"
    /\ Len(func.body) = 1 /\ func.body[1].type \in {"While", "For"}
    /\ Preds(entry) = {}
    /\ \E k \in Succ(entry) :
          /\ nodes[k].node_type = "condition"
          /\ \E j \in Preds(k) : j # entry /\ j # k

(* The node of statement i of a block: the statements are built from the   *)
(* last one to the first.                                                  *)
NodeAt(blk, i) ==
    blk.base + BlockCount(SubSeq(blk.stmts, i + 1, Len(blk.stmts))) + 1

(* The nodes of the statements that follow, in their block, a statement    *)
(* that control never leaves for its continuation: a return, or an if/else *)
(* whose branches all end in such a statement.                             *)
DeadNodes ==
    UNION {{NodeAt(blk, i) : i \in {i \in 2..Len(blk.stmts) :
                LastNodes(blk.stmts[i - 1], NodeAt(blk, i - 1), FALSE) = {}}} :
           blk \in AllBlocks}

(* C23 as stated: every node but the entry has at least one predecessor.   *)
C23_Original ==
    pc = "built" => \A k \in 1..Len(nodes) : k # entry => Preds(k) # {}

(* The nodes of the body of a loop statement, from which its back-edges    *)
(* come.                                                                   *)
OwnBody(o) ==
    IF o.stmt.type \in {"While", "For"}
    THEN (o.node + 1)..(o.node + BlockCount(o.stmt.body))
    ELSE {}

(* C23: the entry node has no predecessor, but it is not the only such     *)
(* node.  The node of a statement that follows a return (or an if/else     *)
(* whose branches all end in a return) in its block is entered from no     *)
(* node outside the statement: it has no predecessor, or, when it is a     *)
(* loop header, only the back-edges of its own body.  Every other node is  *)
(* entered from outside; a statement that follows break or continue has    *)
(* the control node as predecessor.                                        *)
C23_OrphansFollowReturn ==
    pc = "built" =>
        /\ Preds(entry) = {}
        /\ \A o \in AllOcc :
              IF o.node \in DeadNodes
              THEN Preds(o.node) \subseteq OwnBody(o)
              ELSE Preds(o.node) \ OwnBody(o) # {}
        /\ \A o \in AllOcc :
              (o.stmt.type \in {"Break", "Continue"} /\ o.next # None)
                  => o.node \in Preds(o.next)

(* A built body `return x` followed by a statement, whose node nothing     *)
(* leads to.                                                               *)
C23_Witness ==
    /\ pc = "built"
    /\ Len(func.body) = 2 /\ func.body[1].type = "Return"
    /\ func.body[2].type = "Assign"
    /\ DeadNodes = {2}
    /\ Preds(2) = {} /\ nodes[2].node_type = "statement"

-----------------------------------------------------------------------------
(* Functions with return statements at every place a statement can stand:  *)
(* in the body, in the branches of an if, in the body of a while, a with   *)
(* and a for, in the else block of a for, and in a nested function.        *)

ReturnStatements ==
    {Return(Load("x")), Return(NoValue), Return(BinOp(Load("a"), "+", Load("b"))),
     Assign(<<Store("x")>>, Load("a")),
     If(CfgTest, <<Return(Load("a"))>>, <<Return(NoValue)>>),
     If(CfgTest, <<Return(NoValue)>>, <<Return(Load("b"))>>),
     While(CfgTest, <<Return(Call(Load("g"), <<Load("x")>>))>>),
     For(Store("i"), DfgRange, <<Return(Load("i"))>>),
     ForElse(Store("i"), DfgRange, <<Assign(<<Store("x")>>, Load("i"))>>,
             <<Return(Load("x"))>>),
     ForElse(Store("i"), DfgRange, <<Return(NoValue)>>, <<Return(NoValue)>>),
     With(<<WithItem(Call(Load("open"), <<Load("a")>>), Store("y"))>>,
          <<Return(Load("y"))>>),
     FunctionDef("inner", <<>>, <<Return(Load("a"))>>)}

ReturnFunctions ==
    {Parsed(FunctionDef("f", <<"a", "b">>, body)) :
        body \in SeqsUpTo(ReturnStatements, MaxLen) \ {<<>>}}

InitReturn ==
    /\ dfunc \in ReturnFunctions
    /\ analyzer = DataFlowAnalyzer(dfunc.name)
    /\ stmt_i = 0
    /\ pc = "start"
    /\ func = NoFunction
    /\ nodes = <<>>
    /\ id_counter = 0
    /\ entry = None
    /\ visited = {}
    /\ stack = <<>>
    /\ out_nodes = <<>>
    /\ out_edges = <<>>
    /\ calls = <<>>
    /\ RenderIdle /\ GenIdle /\ CleanupIdle

SpecReturn == InitReturn /\ [][NextDFG]_vars

(* The value-returning return statements of a block, in source order, the  *)
(* ones of nested function definitions left out.                           *)
RECURSIVE ValueReturns(_)
StmtValueReturns(s) ==
    CASE s.type = "Return" -> IF s.value = NoValue THEN <<>> ELSE <<s>>
      [] s.type \in {"If", "For"} -> ValueReturns(s.body) \o ValueReturns(s.orelse)
      [] s.type \in {"While", "With"} -> ValueReturns(s.body)
      [] OTHER -> <<>>
ValueReturns(stmts) ==
    IF stmts = <<>> THEN <<>>
    ELSE StmtValueReturns(Head(stmts)) \o ValueReturns(Tail(stmts))

(* No value-returning return statement stands in the else block of a for.  *)
RECURSIVE NoForElseReturn(_)
NoForElseReturn(stmts) ==
    \A i \in 1..Len(stmts) :
        LET s == stmts[i]
        IN /\ s.type = "For" => NoForElseReturn(s.body) /\ ValueReturns(s.orelse) = <<>>
           /\ s.type = "If" => NoForElseReturn(s.body) /\ NoForElseReturn(s.orelse)
           /\ s.type \in {"While", "With"} => NoForElseReturn(s.body)

ReturnKeyExact ==
    LET rs == ValueReturns(dfunc.body)
    IN /\ "__return__" \in DOMAIN analyzer.variables <=> rs # <<>>
       /\ "__return__" \in DOMAIN analyzer.variables =>
             /\ analyzer.variables["__return__"].type = "return"
             /\ rs # <<>> =>
                   /\ analyzer.variables["__return__"].dependencies =
                         Reads(rs[Len(rs)].value)
                   /\ analyzer.variables["__return__"].line = rs[Len(rs)].lineno

(* C24: after the analysis the key __return__ is in the mapping exactly    *)
(* when the function has a return statement with a value; its record then  *)
(* has kind `return` and the names the returned expression reads as its    *)
(* dependency set; a bare return creates no record.                        *)
C24_ReturnKeyExact == pc = "analyzed" => ReturnKeyExact

(* What the code does: the statement holds for every function that has no  *)
(* value-returning return in the else block of a for loop.                 *)
C24_ExactOutsideForElse ==
    (pc = "analyzed" /\ NoForElseReturn(dfunc.body)) => ReturnKeyExact

-----------------------------------------------------------------------------
(* Functions of plain assignments with every shape of target: one name,    *)
(* chained targets, a tuple and a list of names, a pattern nested in a     *)
(* pattern, and a starred name.                                            *)

ListT(elts, ctx) == [type |-> "List", elts |-> elts, ctx |-> ctx]
Starred(value, ctx) == [type |-> "Starred", value |-> value, ctx |-> ctx]

AssignStatements ==
    {Assign(<<Store("x")>>, Load("a")),
     Assign(<<Store("x"), Store("y")>>, BinOp(Load("b"), "+", Constant("1"))),
     Assign(<<TupleT(<<Store("x"), Store("y")>>, "Store")>>,
            TupleT(<<Load("b"), Load("a")>>, "Load")),
     Assign(<<ListT(<<Store("x"), Store("y")>>, "Store")>>, Load("a")),
     Assign(<<TupleT(<<Store("x"), TupleT(<<Store("y"), Store("z")>>, "Store")>>,
                     "Store")>>,
            Call(Load("g"), <<Load("a")>>)),
     Assign(<<ListT(<<Store("z"), ListT(<<Store("x")>>, "Store")>>, "Store")>>,
            Load("b")),
     Assign(<<TupleT(<<Store("x"), Starred(Store("y"), "Store")>>, "Store")>>,
            Load("a"))}

AssignFunctions ==
    {Parsed(FunctionDef("f", <<"a", "b">>, body)) :
        body \in SeqsUpTo(AssignStatements, MaxLen) \ {<<>>}}

InitAssign ==
    /\ dfunc \in AssignFunctions
    /\ analyzer = DataFlowAnalyzer(dfunc.name)
    /\ stmt_i = 0
    /\ pc = "start"
    /\ func = NoFunction
    /\ nodes = <<>>
    /\ id_counter = 0
    /\ entry = None
    /\ visited = {}
    /\ stack = <<>>
    /\ out_nodes = <<>>
    /\ out_edges = <<>>
    /\ calls = <<>>
    /\ RenderIdle /\ GenIdle /\ CleanupIdle

SpecAssign == InitAssign /\ [][NextDFG]_vars

(* The names a target binds when the assignment runs, at any depth of the  *)
(* pattern.                                                                *)
RECURSIVE BoundNames(_)
BoundNames(target) ==
    CASE target.type = "Name" -> {target.id}
      [] target.type \in {"Tuple", "List"} ->
            UNION {BoundNames(target.elts[k]) : k \in 1..Len(target.elts)}
      [] target.type = "Starred" -> BoundNames(target.value)
      [] OTHER -> {}

(* The names a target binds directly: the target itself, or the elements   *)
(* of the pattern that are names.                                          *)
FlatNames(target) ==
    CASE target.type = "Name" -> {target.id}
      [] target.type \in {"Tuple", "List"} ->
            {target.elts[k].id : k \in {k \in 1..Len(target.elts) :
                                          target.elts[k].type = "Name"}}
      [] OTHER -> {}

(* The assignment stmt was just visited: every name of names has the       *)
(* `variable` record of stmt.                                              *)
Recorded(stmt, names) ==
    \A n \in names :
        /\ n \in DOMAIN analyzer.variables
        /\ analyzer.variables[n] =
              [type |-> "variable", dependencies |-> Reads(stmt.value),
               line |-> stmt.lineno]

JustAssigned ==
    /\ pc = "visiting" /\ stmt_i > 1
    /\ dfunc.body[stmt_i - 1].type = "Assign"

(* C25: right after a plain assignment is visited, every name its targets  *)
(* bind, at any nesting depth of a pattern, has a `variable` record with   *)
(* the names the right-hand side reads and the line of the statement.      *)
C25_EveryBoundNameRecorded ==
    JustAssigned =>
        LET stmt == dfunc.body[stmt_i - 1]
        IN \A k \in 1..Len(stmt.targets) : Recorded(stmt, BoundNames(stmt.targets[k]))

(* What the code does: the names that are targets themselves or direct     *)
(* elements of a tuple or list target are recorded; a name inside a nested *)
(* pattern or under a star keeps whatever record it had.                   *)
C25_DirectNamesRecorded ==
    JustAssigned =>
        LET stmt == dfunc.body[stmt_i - 1]
            before == {"a", "b"} \cup
                      UNION {UNION {FlatNames(dfunc.body[j].targets[k]) :
                                      k \in 1..Len(dfunc.body[j].targets)} :
                             j \in 1..(stmt_i - 2)}
            direct == UNION {FlatNames(stmt.targets[k]) : k \in 1..Len(stmt.targets)}
        IN /\ \A k \in 1..Len(stmt.targets) : Recorded(stmt, FlatNames(stmt.targets[k]))
           /\ DOMAIN analyzer.variables \subseteq before \cup direct

-----------------------------------------------------------------------------
(* DFGGenerator._create_visualization: the dot.node and dot.edge calls.    *)

MaxDraws == 4

(* The elements of a set in the order an iteration yields them (one order, *)
(* the claims below do not depend on which).                               *)
RECURSIVE SeqOf(_)
SeqOf(S) ==
    IF S = {} THEN <<>>
    ELSE LET x == CHOOSE x \in S : TRUE IN <<x>> \o SeqOf(S \ {x})

colors(node_type) ==
    CASE node_type = "parameter" -> "#FFD700"
      [] node_type = "variable" -> "#87CEEB"
      [] node_type = "loop_var" -> "#98FB98"
      [] node_type = "context_var" -> "#DDA0DD"
      [] node_type = "return" -> "#FFB6C1"
      [] OTHER -> "#E0E0E0"

(* One iteration of the first loop: dot.node(var_name, label, ...).        *)
dot_node(var_name, info) ==
    [name |-> var_name,
     label |-> IF var_name = "__return__"
               THEN "return\n(line " \o ToString(info.line) \o ")"
               ELSE var_name \o "\n(" \o info.type \o ", line "
                        \o ToString(info.line) \o ")",
     shape |-> CASE info.type = "parameter" -> "ellipse"
                 [] info.type = "return" -> "diamond"
                 [] OTHER -> "box",
     fillcolor |-> colors(info.type)]

(* for var_name, info in variables.items(): dot.node(...)                  *)
dot_nodes(variables) ==
    LET keys == SeqOf(DOMAIN variables)
    IN [k \in 1..Len(keys) |-> dot_node(keys[k], variables[keys[k]])]

dot_edge(dependency, var_name) ==
    [src |-> dependency, dst |-> var_name, label |-> "uses"]

(* The inner loop without `if dependency in variables`.                    *)
RECURSIVE edges_of_unfiltered(_, _, _)
edges_of_unfiltered(variables, var_name, dependencies) ==
    IF dependencies = <<>> THEN <<>>
    ELSE <<dot_edge(Head(dependencies), var_name)>>
         \o edges_of_unfiltered(variables, var_name, Tail(dependencies))

(* The inner loop of the second loop for one variable.                     *)
RECURSIVE edges_of(_, _, _)
edges_of(variables, var_name, dependencies) ==
    IF dependencies = <<>> THEN <<>>
    ELSE (IF Head(dependencies) \in DOMAIN variables
          THEN <<dot_edge(Head(dependencies), var_name)>> ELSE <<>>)
         \o edges_of(variables, var_name, Tail(dependencies))

(* for var_name, info in variables.items(): for dependency in ...          *)
RECURSIVE edges_loop(_, _)
edges_loop(variables, keys) ==
    IF keys = <<>> THEN <<>>
    ELSE edges_of(variables, Head(keys), SeqOf(variables[Head(keys)].dependencies))
         \o edges_loop(variables, Tail(keys))

dot_edges(variables) == edges_loop(variables, SeqOf(DOMAIN variables))

(* generate_dfg after the analysis: the mapping is not empty and           *)
(* _create_visualization draws it and returns the path.                    *)
DfgCreateVisualization ==
    /\ pc \in {"analyzed", "drawn"}
    /\ analyzer.variables # <<>>
    /\ Len(renders) < MaxDraws
    /\ out_nodes' = dot_nodes(analyzer.variables)
    /\ out_edges' = dot_edges(analyzer.variables)
    /\ renders' = Append(renders,
                         [generator |-> "dfg", function_name |-> dfunc.name,
                          at |-> clock,
                          path |-> create_visualization(analyzer.variables,
                                                        dfunc.name, clock)])
    /\ pc' = "drawn"
    /\ UNCHANGED <<func, nodes, id_counter, entry, visited, stack, calls, dfg_vars,
                   clock, gen_vars, cleanup_vars>>

NextDfgDraw ==
    \/ DfgEnterFunction
    \/ DfgVisitStatement
    \/ DfgLeaveFunction
    \/ DfgCreateVisualization

SpecDfgDraw == InitDFG /\ [][NextDfgDraw]_vars

Count(seq, x) == Cardinality({k \in 1..Len(seq) : seq[k] = x})

(* C26: every edge drawn leads from a key of the mapping to a key of the   *)
(* mapping that depends on it and is labelled "uses"; a dependency on a    *)
(* key is drawn exactly once, a dependency on a name that is no key is not *)
(* drawn; every key has exactly one node.                                  *)
C26_EdgesWithinMapping ==
    pc = "drawn" =>
        LET variables == analyzer.variables
        IN /\ \A k \in 1..Len(out_edges) :
                 /\ out_edges[k].src \in DOMAIN variables
                 /\ out_edges[k].dst \in DOMAIN variables
                 /\ out_edges[k].src \in variables[out_edges[k].dst].dependencies
                 /\ out_edges[k].label = "uses"
           /\ \A v \in DOMAIN variables :
                 \A d \in variables[v].dependencies :
                     Count(out_edges, dot_edge(d, v)) =
                         (IF d \in DOMAIN variables THEN 1 ELSE 0)
           /\ Len(out_nodes) = Cardinality(DOMAIN variables)
           /\ \A v \in DOMAIN variables :
                 Cardinality({k \in 1..Len(out_nodes) : out_nodes[k].name = v}) = 1

(* y = g(x) after x = a was drawn: the edge from x to y is there, and the  *)
(* dependency of y on g, which is no key, has no edge.                     *)
C26_Witness ==
    /\ pc = "drawn"
    /\ {"x", "y"} \subseteq DOMAIN analyzer.variables
    /\ analyzer.variables["y"].dependencies = {"g", "x"}
    /\ "g" \notin DOMAIN analyzer.variables
    /\ Count(out_edges, dot_edge("x", "y")) = 1
    /\ Count(out_edges, dot_edge("g", "y")) = 0
    /\ Count(out_edges, dot_edge("a", "x")) = 1

-----------------------------------------------------------------------------
(* A caller that builds the CFG of func and renders it again and again,    *)
(* then analyses dfunc and draws its DFG again and again.                  *)

DrawDfgFunctions ==
    {Parsed(Scenario2),
     Parsed(FunctionDef("f", <<"a", "b">>,
                        <<Assign(<<Store("x")>>, Load("a")),
                          Assign(<<Store("y")>>, Call(Load("g"), <<Load("x")>>)),
                          AugAssign(Store("x"), "+", Load("y")),
                          Return(Load("x"))>>))}

InitDraw ==
    /\ func \in RenderFunctions
    /\ dfunc \in DrawDfgFunctions
    /\ analyzer = NoAnalyzer
    /\ stmt_i = 0
    /\ nodes = <<>>
    /\ id_counter = 0
    /\ entry = None
    /\ pc = "start"
    /\ visited = {}
    /\ stack = <<>>
    /\ out_nodes = <<>>
    /\ out_edges = <<>>
    /\ calls = <<>>
    /\ RenderIdle /\ GenIdle /\ CleanupIdle

(* _visualize_cfg is called once more for the entry node it was called     *)
(* for before.                                                             *)
VisualizeCfgAgain ==
    /\ pc = "rendered"
    /\ Len(renders) < MaxRenders
    /\ visited' = {}
    /\ stack' = <<[node |-> entry, i |-> 0]>>
    /\ out_nodes' = <<>>
    /\ out_edges' = <<>>
    /\ pc' = "rendering"
    /\ UNCHANGED <<func, nodes, id_counter, entry, calls, ext_vars, dfg_vars>>

(* generate_dfg up to `if not analyzer.variables`: a new analyzer visits   *)
(* the tree of the module that holds dfunc.                                *)
DfgAnalyze ==
    /\ pc \in {"start", "rendered"}
    /\ analyzer' = visit(DataFlowAnalyzer(dfunc.name), Module(<<dfunc>>))
    /\ pc' = "analyzed"
    /\ UNCHANGED <<cfg_vars, calls, dfunc, stmt_i, ext_vars>>

NextDraw ==
    \/ BuildCfgFromFunction
    \/ VisualizeCfg
    \/ VisualizeCfgAgain
    \/ AddNodesVisited
    \/ AddNodesNew
    \/ AddNodesEdge
    \/ AddNodesReturn
    \/ RenderCfg
    \/ DfgAnalyze
    \/ DfgCreateVisualization

SpecDraw == InitDraw /\ [][NextDraw]_vars

(* The graph as _build_cfg_from_function made it / the mapping as the      *)
(* analysis made it.                                                       *)
BuiltGraph == build_cfg_from_function(0, func)
AnalysedMapping == visit(DataFlowAnalyzer(dfunc.name), Module(<<dfunc>>)).variables

RendersOf(generator_) ==
    {k \in 1..Len(renders) : renders[k].generator = generator_}

(* C27: rendering does not change the graph in memory.  During and after   *)
(* any number of _visualize_cfg calls the nodes (id, label, kind,          *)
(* successors, edge labels) and the entry are as they were built, and      *)
(* after any number of _create_visualization calls the variable mapping is *)
(* as the analysis left it.                                                *)
C27_RenderLeavesGraph ==
    /\ nodes # <<>> =>
          /\ nodes = BuiltGraph.h.nodes
          /\ entry = BuiltGraph.node
          /\ id_counter = BuiltGraph.h.counter
    /\ pc \in {"analyzed", "drawn"} => analyzer.variables = AnalysedMapping

(* The CFG was rendered twice and the DFG was drawn twice, and graph and   *)
(* mapping are still the ones that were built.                             *)
C27_Witness ==
    /\ pc = "drawn"
    /\ Cardinality(RendersOf("cfg")) >= 2
    /\ Cardinality(RendersOf("dfg")) >= 2
    /\ nodes # <<>> /\ nodes = BuiltGraph.h.nodes
    /\ out_edges # <<>>
    /\ analyzer.variables = AnalysedMapping

-----------------------------------------------------------------------------
(* C28: a while, a for or an if without else that is built with no         *)
(* continuation gets no exit edge: the header of the loop has one outgoing *)
(* edge, "True" or "iterate", to the first node of its body, and the       *)
(* condition of the if has its "True" edge alone.                          *)
C28_NoExitEdgeWithoutContinuation ==
    pc = "built" =>
        \A o \in AllOcc :
            o.next = None =>
                /\ o.stmt.type \in {"While", "For"} =>
                      /\ nodes[o.node].successors =
                            <<FirstOf(o.stmt.body, o.node, o.node)>>
                      /\ DOMAIN nodes[o.node].edge_labels = Succ(o.node)
                      /\ \A t \in Succ(o.node) :
                            nodes[o.node].edge_labels[t] =
                                (IF o.stmt.type = "While" THEN "True" ELSE "iterate")
                /\ (o.stmt.type = "If" /\ o.stmt.orelse = <<>>) =>
                      /\ nodes[o.node].successors =
                            <<FirstOf(o.stmt.body, None, o.node)>>
                      /\ DOMAIN nodes[o.node].edge_labels = Succ(o.node)
                      /\ \A t \in Succ(o.node) : nodes[o.node].edge_labels[t] = "True"

(* A built function that ends in a loop after another statement: the       *)
(* header has its body edge alone, and the statement before the loop leads *)
(* to the header.                                                          *)
C28_Witness ==
    /\ pc = "built"
    /\ Len(func.body) = 2
    /\ func.body[2].type \in {"While", "For"}
    /\ \E o \in AllOcc :
          /\ o.stmt = func.body[2] /\ o.next = None
          /\ Len(nodes[o.node].successors) = 1
          /\ Preds(o.node) \ OwnBody(o) # {}

(* The edge the traversal draws for the successor t of node k.             *)
EdgeOf(k, t) ==
    [src |-> nodes[k].id, dst |-> nodes[t].id, label |-> EdgeLabel(nodes[k], t)]

(* C29: when the traversal is over, every outgoing edge of every node that *)
(* can be reached from the entry was drawn exactly once, edges to nodes    *)
(* that were visited before included; nothing else was drawn; and both     *)
(* ends of every edge drawn were drawn as nodes.                           *)
C29_EveryEdgeOnce ==
    pc = "rendered" =>
        LET reached == ReachFrom({entry})
        IN /\ \A k \in reached : \A t \in Succ(k) : Count(out_edges, EdgeOf(k, t)) = 1
           /\ \A i \in 1..Len(out_edges) :
                 /\ \E k \in reached : \E t \in Succ(k) : out_edges[i] = EdgeOf(k, t)
                 /\ out_edges[i].src \in Range(out_nodes)
                 /\ out_edges[i].dst \in Range(out_nodes)
           /\ Range(out_nodes) = {nodes[k].id : k \in reached}

(* A rendered loop: the back-edge, whose target was drawn before its       *)
(* source, was drawn once.                                                 *)
C29_Witness ==
    /\ pc = "rendered"
    /\ \E i \in 1..Len(out_edges) :
          \E a, b \in 1..Len(out_nodes) :
              /\ out_nodes[a] = out_edges[i].dst
              /\ out_nodes[b] = out_edges[i].src
              /\ a < b
              /\ Count(out_edges, out_edges[i]) = 1

(* C30: out-degree by kind.  A return node has no successor, a statement   *)
(* or control node at most one, the entry exactly one, a condition node    *)
(* one or two, under distinct edge labels; no node has two edges to the    *)
(* same node.                                                              *)
C30_OutDegreeByKind ==
    pc = "built" =>
        \A k \in 1..Len(nodes) :
            LET n == Len(nodes[k].successors)
                kind == nodes[k].node_type
            IN /\ kind \in {"entry", "statement", "control", "return", "condition"}
               /\ kind = "return" => n = 0
               /\ kind \in {"statement", "control"} => n <= 1
               /\ kind = "entry" => n = 1
               /\ kind = "condition" =>
                     /\ n >= 1 /\ n <= 2
                     /\ DOMAIN nodes[k].edge_labels = Succ(k)
                     /\ Cardinality({nodes[k].edge_labels[t] : t \in Succ(k)}) = n
               /\ Cardinality(Succ(k)) = n

(* A built function with nodes of all five kinds, among them a condition   *)
(* with two successors and one with a single successor.                    *)
C30_Witness ==
    /\ pc = "built"
    /\ {nodes[k].node_type : k \in 1..Len(nodes)} =
          {"entry", "statement", "control", "return", "condition"}
    /\ \E k \in 1..Len(nodes) :
          nodes[k].node_type = "condition" /\ Len(nodes[k].successors) = 2
====
